---- MODULE Spec2Model ----
(***************************************************************************)
(* The sandboxed GolfScript evaluator of src/src/lib.rs (struct Gs and the *)
(* entry point golfscript) as a state machine.  One TLA+ step is one step  *)
(* of the evaluator: the execution of one token by Gs::run, or one step of *)
(* a handler that re-enters Gs::run (map, loops, ...).  The Rust call      *)
(* stack is the variable ctl.                                              *)
(***************************************************************************)
EXTENDS Integers, Sequences, FiniteSets, TLC

VARIABLES
  stack,      \* Gs.stack : Vec<Gval>
  vars,       \* Gs.vars : HashMap<Vec<u8>, Gval>
  lb,         \* Gs.lb : Vec<usize>
  rng_state,  \* Gs.rng_state : u64
  stable,     \* Gs.stable : bool
  output,     \* Gs.output : String (as bytes)
  max_loops,  \* Gs.max_loops : u64
  ctl,        \* the call stack: activations of Gs::run and of the handlers that call it
  aborted,    \* the process has panicked
  phase,      \* position inside golfscript(): "run", "puts", "done"
  pops,       \* the calls of Gs::pop made by the last step: stack length and lb before, lb after
  last,       \* the last step: its action and the lexeme of the token it executed
  feed,       \* number of further tokens the source may still supply
  scen,       \* which source text golfscript() was called with
  overflow_checks  \* the build panics on integer overflow (debug) or wraps (release)

vars_all == <<stack, vars, lb, rng_state, stable, output, max_loops, ctl,
              aborted, phase, pops, last, feed, scen, overflow_checks>>

(***************************************************************************)
(* Bytes.  Source text and Str/Blk bodies are sequences of byte values.    *)
(***************************************************************************)
AsciiLow == " !\"#$%&'()*+,-./0123456789:;<=>?@ABCDEFGHIJKLMNOPQRSTUVWXYZ[\\]^_"
AsciiHigh == "abcdefghijklmnopqrstuvwxyz{|}~"

Ord(c) ==
  IF \E i \in 1..Len(AsciiLow) : SubSeq(AsciiLow, i, i) = c
  THEN 31 + CHOOSE i \in 1..Len(AsciiLow) : SubSeq(AsciiLow, i, i) = c
  ELSE 96 + CHOOSE i \in 1..Len(AsciiHigh) : SubSeq(AsciiHigh, i, i) = c

\* the bytes of a string literal of this module
B(s) == [i \in 1..Len(s) |-> Ord(SubSeq(s, i, i))]

IsDigit(b) == b >= 48 /\ b <= 57
IsAlpha(b) == (b >= 97 /\ b <= 122) \/ (b >= 65 /\ b <= 90) \/ b = 95

(***************************************************************************)
(* Gval: the four variants, as <<tag, payload>>.                           *)
(***************************************************************************)
IntV(n) == <<"Int", n>>
ArrV(vs) == <<"Arr", vs>>
StrV(bs) == <<"Str", bs>>
BlkV(bs) == <<"Blk", bs>>

Tag(v) == v[1]
Val(v) == v[2]

EmptyArr == ArrV(<<>>)

\* Gval::bool
GBool(b) == IntV(IF b THEN 1 ELSE 0)

\* Gval::falsey / Gval::truthy
Falsey(v) == IF Tag(v) = "Int" THEN Val(v) = 0 ELSE Len(Val(v)) = 0
Truthy(v) == ~Falsey(v)

\* impl From<u8> for Gval
ByteV(b) == IntV(b)

(***************************************************************************)
(* parse_code (src/parse.rs is not part of the sources; modelled after the *)
(* tokenizer contract): the tokens of a byte sequence and the bytes left   *)
(* over.  A token is [kind, lexeme, body]; body is the source between the  *)
(* braces of a Block, the text between the quotes of a string.             *)
(***************************************************************************)
Token(kind, lexeme, body) == [kind |-> kind, lexeme |-> lexeme, body |-> body]

\* whether byte b continues a token of class cls
InClass(cls, b) ==
  CASE cls = "digits" -> IsDigit(b)
    [] cls = "name" -> IsAlpha(b) \/ IsDigit(b)
    [] cls = "line" -> b # 10

\* the first index >= i whose byte is not of class cls (Len + 1 if none)
SpanEnd(code, i, cls) ==
  LET stops == {j \in i..Len(code) : ~InClass(cls, code[j])}
  IN IF stops = {} THEN Len(code) + 1
     ELSE CHOOSE j \in stops : \A k \in stops : j <= k

\* the index of the quote q closing a string whose text starts at i (0 if none)
RECURSIVE QuoteEnd(_, _, _)
QuoteEnd(code, i, q) ==
  IF i > Len(code) THEN 0
  ELSE IF code[i] = 92 THEN QuoteEnd(code, i + 2, q)
  ELSE IF code[i] = q THEN i
  ELSE QuoteEnd(code, i + 1, q)

\* the index just after the Block opened at index i - 1, whose text starts at
\* i (0 when it is not closed); depth counts the braces open inside it
RECURSIVE BlockEnd(_, _, _)
BlockEnd(code, i, depth) ==
  IF i > Len(code) THEN 0
  ELSE IF code[i] = 125 THEN (IF depth = 0 THEN i + 1 ELSE BlockEnd(code, i + 1, depth - 1))
  ELSE IF code[i] = 123 THEN BlockEnd(code, i + 1, depth + 1)
  ELSE IF code[i] = 39 \/ code[i] = 34
  THEN (IF QuoteEnd(code, i + 1, code[i]) = 0 THEN 0
        ELSE BlockEnd(code, QuoteEnd(code, i + 1, code[i]) + 1, depth))
  ELSE IF code[i] = 35 THEN BlockEnd(code, SpanEnd(code, i + 1, "line"), depth)
  ELSE BlockEnd(code, i + 1, depth)

\* the index just after the token that starts at index i (0 when none does)
TokenEnd(code, i) ==
  LET b == code[i]
  IN IF b = 125 THEN 0
     ELSE IF IsDigit(b) \/ (b = 45 /\ i < Len(code) /\ IsDigit(code[i + 1]))
     THEN SpanEnd(code, i + 1, "digits")
     ELSE IF IsAlpha(b) THEN SpanEnd(code, i + 1, "name")
     ELSE IF b = 39 \/ b = 34
     THEN (IF QuoteEnd(code, i + 1, b) = 0 THEN 0 ELSE QuoteEnd(code, i + 1, b) + 1)
     ELSE IF b = 35 THEN SpanEnd(code, i + 1, "line")
     ELSE IF b = 123 THEN BlockEnd(code, i + 1, 0)
     ELSE i + 1

\* the token of the bytes code[i .. e - 1]
TokenAt(code, i, e) ==
  LET b == code[i]
      lexeme == SubSeq(code, i, e - 1)
      inside == SubSeq(code, i + 1, e - 2)
  IN IF IsDigit(b) \/ (b = 45 /\ e > i + 1) THEN Token("IntLiteral", lexeme, <<>>)
     ELSE IF b = 39 THEN Token("SingleQuotedString", lexeme, inside)
     ELSE IF b = 34 THEN Token("DoubleQuotedString", lexeme, inside)
     ELSE IF b = 35 THEN Token("Comment", lexeme, <<>>)
     ELSE IF b = 123 THEN Token("Block", lexeme, inside)
     ELSE Token("Symbol", lexeme, <<>>)

\* the tokens from index i up to the end, an unmatched "}" or the first byte
\* that starts no token; pos is the index where tokenizing stopped
RECURSIVE ParseSeq(_, _, _)
ParseSeq(code, i, toks) ==
  IF i > Len(code) \/ TokenEnd(code, i) = 0 THEN [toks |-> toks, pos |-> i]
  ELSE ParseSeq(code, TokenEnd(code, i), Append(toks, TokenAt(code, i, TokenEnd(code, i))))

\* parse_code: (rest, tokens)
parse_code(code) ==
  LET r == ParseSeq(code, 1, <<>>)
  IN [rest |-> SubSeq(code, r.pos, Len(code)), tokens |-> r.toks]

(***************************************************************************)
(* Value operations of src/value.rs and src/coerce.rs (not part of the     *)
(* sources; modelled after the value model of the design).                 *)
(***************************************************************************)
\* the decimal digits of a natural number
RECURSIVE Digits(_)
Digits(n) == IF n < 10 THEN <<48 + n>> ELSE Digits(n \div 10) \o <<48 + (n % 10)>>

\* BigInt's signed decimal rendering
DecBytes(n) == IF n < 0 THEN <<45>> \o Digits(-n) ELSE Digits(n)

\* BigInt::parse_bytes(bs, 10) of an IntLiteral lexeme
RECURSIVE ParseNat(_, _)
ParseNat(bs, acc) ==
  IF bs = <<>> THEN acc ELSE ParseNat(Tail(bs), acc * 10 + (Head(bs) - 48))

ParseInt(bs) == IF Head(bs) = 45 THEN -ParseNat(Tail(bs), 0) ELSE ParseNat(bs, 0)

\* the digits of a decimal text without its sign and its leading zeros
RECURSIVE Magnitude(_)
Magnitude(bs) ==
  IF bs # <<>> /\ Head(bs) = 45 THEN Magnitude(Tail(bs))
  ELSE IF Len(bs) > 1 /\ Head(bs) = 48 THEN Magnitude(Tail(bs))
  ELSE bs

\* x <= y for two such texts
DecLeq(x, y) ==
  \/ Len(x) < Len(y)
  \/ /\ Len(x) = Len(y)
     /\ \/ x = y
        \/ \E i \in 1..Len(x) : SubSeq(x, 1, i - 1) = SubSeq(y, 1, i - 1) /\ x[i] < y[i]

\* a BigInt whose magnitude is above 2147483647: it is kept as its sign and
\* its decimal digits
HugeV(bs) == <<"Int", [neg |-> Head(bs) = 45, digits |-> Magnitude(bs)], "huge">>
IsHuge(v) == Len(v) = 3

\* the Int of an IntLiteral lexeme
Literal(bs) ==
  IF DecLeq(Magnitude(bs), B("2147483647")) THEN IntV(ParseInt(bs)) ELSE HugeV(bs)

\* BigInt::to_u32 and BigInt::to_i32 are Some
FitsU32(v) ==
  IF IsHuge(v) THEN ~Val(v).neg /\ DecLeq(Val(v).digits, B("4294967295"))
  ELSE Val(v) >= 0
FitsI32(v) ==
  IF IsHuge(v) THEN Val(v).neg /\ Val(v).digits = B("2147483648") ELSE TRUE

\* Gval::to_gs
\* BigInt's decimal rendering of an Int value
IntText(v) ==
  IF IsHuge(v) THEN (IF Val(v).neg THEN <<45>> ELSE <<>>) \o Val(v).digits
  ELSE DecBytes(Val(v))

RECURSIVE to_gs(_)
RECURSIVE ConcatGs(_)
ConcatGs(vs) == IF vs = <<>> THEN <<>> ELSE to_gs(Head(vs)) \o ConcatGs(Tail(vs))

to_gs(v) ==
  CASE Tag(v) = "Int" -> IntText(v)
    [] Tag(v) = "Str" -> Val(v)
    [] Tag(v) = "Arr" -> ConcatGs(Val(v))
    [] Tag(v) = "Blk" -> <<123>> \o Val(v) \o <<125>>

\* the bytes of a string with a backslash before every quote and backslash
RECURSIVE Escaped(_)
Escaped(bs) ==
  IF bs = <<>> THEN <<>>
  ELSE (IF Head(bs) = 34 \/ Head(bs) = 92 THEN <<92, Head(bs)>> ELSE <<Head(bs)>>)
       \o Escaped(Tail(bs))

\* Gval::inspect
RECURSIVE inspect(_)
RECURSIVE InspectAll(_)
InspectAll(vs) ==
  IF vs = <<>> THEN <<>>
  ELSE IF Len(vs) = 1 THEN inspect(Head(vs))
  ELSE inspect(Head(vs)) \o <<32>> \o InspectAll(Tail(vs))

inspect(v) ==
  CASE Tag(v) = "Int" -> IntText(v)
    [] Tag(v) = "Str" -> <<34>> \o Escaped(Val(v)) \o <<34>>
    [] Tag(v) = "Arr" -> <<91>> \o InspectAll(Val(v)) \o <<93>>
    [] Tag(v) = "Blk" -> <<123>> \o Val(v) \o <<125>>

\* the rank of a kind in Int < Arr < Str < Blk
Rank(v) ==
  CASE Tag(v) = "Int" -> 0 [] Tag(v) = "Arr" -> 1 [] Tag(v) = "Str" -> 2 [] Tag(v) = "Blk" -> 3

\* the payload of v promoted to the kind of rank r >= Rank(v)
Promote(v, r) ==
  IF Rank(v) = r THEN Val(v)
  ELSE IF r = 1 THEN <<v>>
  ELSE IF Tag(v) = "Arr" THEN ConcatGs(Val(v))
  ELSE IF Tag(v) = "Int" THEN DecBytes(Val(v))
  ELSE Val(v)

\* coerce: both operands in the higher-ranked kind of the two
coerce(a, b) ==
  LET r == IF Rank(a) > Rank(b) THEN Rank(a) ELSE Rank(b)
  IN [kind |-> CASE r = 0 -> "Ints" [] r = 1 -> "Arrs" [] r = 2 -> "Strs" [] r = 3 -> "Blks",
      x |-> Promote(a, r), y |-> Promote(b, r)]

\* Gval::plus
plus_val(a, b) ==
  LET c == coerce(a, b)
  IN CASE c.kind = "Ints" -> IntV(c.x + c.y)
       [] c.kind = "Arrs" -> ArrV(c.x \o c.y)
       [] c.kind = "Strs" -> StrV(c.x \o c.y)
       [] c.kind = "Blks" -> BlkV(c.x \o c.y)

\* coerce::flatten: the bytes of a list of values (an Int is one byte)
RECURSIVE flatten(_)
flatten(vs) ==
  IF vs = <<>> THEN <<>>
  ELSE LET v == Head(vs)
       IN (CASE Tag(v) = "Int" -> <<Val(v) % 256>>
             [] Tag(v) = "Arr" -> flatten(Val(v))
             [] OTHER -> Val(v)) \o flatten(Tail(vs))

\* impl Into<Gval> for the elements of a sequence value: a Gval of an Arr,
\* a byte of a Str or Blk
Elems(v) ==
  IF Tag(v) = "Arr" THEN Val(v) ELSE [i \in 1..Len(Val(v)) |-> IntV(Val(v)[i])]

(***************************************************************************)
(* struct Gs.  The operators below take and return the evaluator as a      *)
(* record m of the variables; an Option is a sequence of length 0 or 1.    *)
(***************************************************************************)
SandboxMaxLoops == 2000
RngSeed == 123456789

None == <<>>
Some(v) == <<v>>
IsSome(o) == Len(o) = 1

\* Option::or(Some(d)).unwrap()
OrElse(o, d) == IF IsSome(o) THEN o[1] ELSE d

Machine ==
  [stack |-> stack, vars |-> vars, lb |-> lb, rng_state |-> rng_state,
   stable |-> stable, output |-> output, max_loops |-> max_loops,
   ctl |-> ctl, aborted |-> aborted, pops |-> <<>>]

\* a panic: the process is gone; the evaluator keeps the state it had
Panic(m) == [m EXCEPT !.aborted = TRUE]

\* a variant of set_unstable that leaves the flag alone
set_unstable_kept(m) == m

\* Gs::set_unstable
set_unstable(m) == [m EXCEPT !.stable = FALSE]

\* the number of bytes of the UTF-8 sequence that starts at bs[i] (0 when bs[i]
\* starts none) and the range its second byte must lie in
Utf8Width(b) ==
  IF b < 128 THEN 1
  ELSE IF b >= 194 /\ b <= 223 THEN 2
  ELSE IF b >= 224 /\ b <= 239 THEN 3
  ELSE IF b >= 240 /\ b <= 244 THEN 4
  ELSE 0
Utf8Second(b) ==
  CASE b = 224 -> 160..191
    [] b = 237 -> 128..159
    [] b = 240 -> 144..191
    [] b = 244 -> 128..143
    [] OTHER -> 128..191

\* the number of bytes from bs[i] on that continue the sequence started at
\* bs[i]: the width of the sequence when it is well formed, less when it is cut
RECURSIVE Utf8Run(_, _, _, _)
Utf8Run(bs, i, k, w) ==
  IF k >= w \/ i + k > Len(bs) THEN k
  ELSE IF bs[i + k] \in (IF k = 1 THEN Utf8Second(bs[i]) ELSE 128..191)
  THEN Utf8Run(bs, i, k + 1, w)
  ELSE k

\* the scalar value of the well-formed sequence of w bytes at bs[i]
Utf8Scalar(bs, i, w) ==
  CASE w = 1 -> bs[i]
    [] w = 2 -> (bs[i] % 32) * 64 + (bs[i + 1] % 64)
    [] w = 3 -> (bs[i] % 16) * 4096 + (bs[i + 1] % 64) * 64 + (bs[i + 2] % 64)
    [] w = 4 -> (bs[i] % 8) * 262144 + (bs[i + 1] % 64) * 4096
                  + (bs[i + 2] % 64) * 64 + (bs[i + 3] % 64)

\* String::from_utf8_lossy: the chars of bytes, with U+FFFD for every maximal
\* ill-formed part
RECURSIVE from_utf8_lossy(_, _, _)
from_utf8_lossy(bs, i, chars) ==
  IF i > Len(bs) THEN chars
  ELSE LET w == Utf8Width(bs[i])
           k == IF w = 0 THEN 1 ELSE Utf8Run(bs, i, 1, w)
       IN from_utf8_lossy(bs, i + k,
                          Append(chars, IF k = w THEN Utf8Scalar(bs, i, w) ELSE 65533))

\* a variant of Gs::print that puts the new text in front of the output
print_front(m, bytes) == [m EXCEPT !.output = from_utf8_lossy(bytes, 1, <<>>) \o @]

\* Gs::print; output += String::from_utf8_lossy(bytes): output is a sequence
\* of chars
print(m, bytes) == [m EXCEPT !.output = @ \o from_utf8_lossy(bytes, 1, <<>>)]

\* Gs::push
push(m, val) == [m EXCEPT !.stack = Append(@, val)]

\* Gs::top
top(m) == IF Len(m.stack) = 0 THEN None ELSE Some(m.stack[Len(m.stack)])

\* a variant of the loop of Gs::pop that lowers no bracket mark
PopWalk_none(l, i, n, loops, cap) == l

\* the loop of Gs::pop over the bracket stack: i counts down from lb.len()
RECURSIVE PopWalk(_, _, _, _, _)
PopWalk(l, i, n, loops, cap) ==
  IF i > 0 /\ l[i] >= n /\ loops < cap
  THEN PopWalk([l EXCEPT ![i] = IF @ > 0 THEN @ - 1 ELSE @], i - 1, n, loops + 1, cap)
  ELSE l

\* Gs::pop: the evaluator after the pop and the popped Option
pop(m) ==
  LET n == Len(m.stack)
      l == PopWalk(m.lb, Len(m.lb), n, 0, m.max_loops)
      seen == Append(m.pops, [len |-> n, lb |-> m.lb, after |-> l])
  IN IF n > 0
     THEN [m |-> [m EXCEPT !.lb = l, !.stack = SubSeq(@, 1, n - 1), !.pops = seen],
           a |-> Some(m.stack[n])]
     ELSE [m |-> set_unstable([m EXCEPT !.lb = l, !.pops = seen]), a |-> None]

\* self.pop().or(Some(Gval::Arr(vec![]))).unwrap(), twice: b, then a
Pop2(m, d) ==
  LET p1 == pop(m)
      p2 == pop(p1.m)
  IN [m |-> p2.m, a |-> OrElse(p2.a, d), b |-> OrElse(p1.a, d)]

\* a variant of Gs::run that runs the tokens in front of a remainder
run_partial(m, code) ==
  [m EXCEPT !.ctl = Append(@, [k |-> "run", toks |-> parse_code(code).tokens,
                                pc |-> 1])]

\* Gs::run up to its token loop: an activation of run on the tokens of code,
\* none when parse_code leaves a remainder
run(m, code) ==
  LET p == parse_code(code)
  IN IF Len(p.rest) > 0 THEN m
     ELSE [m EXCEPT !.ctl = Append(@, [k |-> "run", toks |-> p.tokens, pc |-> 1])]

\* Gs::go
go(m, val) == IF Tag(val) = "Blk" THEN run(m, Val(val)) ELSE push(m, val)

\* an activation of a handler that calls run and goes on afterwards
Call(m, frame) == [m EXCEPT !.ctl = Append(@, frame)]

\* Vec::drain(from..) on the stack; it panics when from exceeds the length
Drain(m, from) ==
  IF from > Len(m.stack) THEN [m |-> Panic(m), vs |-> <<>>]
  ELSE [m |-> [m EXCEPT !.stack = SubSeq(@, 1, from)],
        vs |-> SubSeq(m.stack, from + 1, Len(m.stack))]

(***************************************************************************)
(* Sequence utilities of src/util.rs (not part of the sources; modelled    *)
(* after the design), on sequences of Gval.                                *)
(***************************************************************************)
\* Gval's PartialEq: structural; Str and Blk are equal when their bytes are
RECURSIVE GvalEq(_, _)
GvalEq(a, b) ==
  IF Tag(a) = "Int" \/ Tag(b) = "Int" THEN Tag(a) = Tag(b) /\ Val(a) = Val(b)
  ELSE IF Tag(a) = "Arr" \/ Tag(b) = "Arr"
  THEN /\ Tag(a) = Tag(b)
       /\ Len(Val(a)) = Len(Val(b))
       /\ \A i \in 1..Len(Val(a)) : GvalEq(Val(a)[i], Val(b)[i])
  ELSE Val(a) = Val(b)

Reverse(xs) == [i \in 1..Len(xs) |-> xs[Len(xs) + 1 - i]]

\* whether sep occurs in a at index i
MatchAt(a, sep, i) ==
  /\ i + Len(sep) - 1 <= Len(a)
  /\ \A j \in 1..Len(sep) : GvalEq(a[i + j - 1], sep[j])

\* util::split: the fragments of a between the occurrences of sep (not empty),
\* without the empty fragments when clean
RECURSIVE SplitFrom(_, _, _, _, _)
SplitFrom(a, sep, clean, i, cur) ==
  LET keep(frag) == IF clean /\ frag = <<>> THEN <<>> ELSE <<frag>>
  IN IF i > Len(a) THEN keep(cur)
     ELSE IF MatchAt(a, sep, i)
     THEN keep(cur) \o SplitFrom(a, sep, clean, i + Len(sep), <<>>)
     ELSE SplitFrom(a, sep, clean, i + 1, Append(cur, a[i]))

split(a, sep, clean) == SplitFrom(a, sep, clean, 1, <<>>)

\* util::every_nth, n # 0
every_nth(a, n) ==
  LET src == IF n < 0 THEN Reverse(a) ELSE a
      step == IF n < 0 THEN -n ELSE n
      cnt == (Len(src) + step - 1) \div step
  IN [i \in 1..cnt |-> src[(i - 1) * step + 1]]

\* the bytes of a sequence of byte values
Bytes(vs) == [i \in 1..Len(vs) |-> Val(vs[i])]

\* a sequence of byte values
ByteVals(bs) == [i \in 1..Len(bs) |-> IntV(bs[i])]

(***************************************************************************)
(* The handlers of the built-in symbols.                                   *)
(***************************************************************************)
\* a variant of Gs::dup that pushes the popped value once
dup_once(m) ==
  LET p == pop(m)
  IN IF IsSome(p.a) THEN push(p.m, p.a[1])
     ELSE push(push(p.m, EmptyArr), EmptyArr)

\* Gs::dup
dup(m) ==
  LET p == pop(m)
  IN IF IsSome(p.a) THEN push(push(p.m, p.a[1]), p.a[1])
     ELSE push(push(p.m, EmptyArr), EmptyArr)

\* Gs::tilde
tilde(m) ==
  LET p == pop(m)
  IN IF ~IsSome(p.a) THEN push(p.m, EmptyArr)
     ELSE LET v == p.a[1]
          IN CASE Tag(v) = "Int" -> push(p.m, IntV(-Val(v) - 1))
               [] Tag(v) = "Arr" -> [p.m EXCEPT !.stack = @ \o Val(v)]
               [] OTHER -> run(p.m, Val(v))

\* Gs::backtick
backtick(m) ==
  LET p == pop(m)
  IN IF IsSome(p.a) THEN push(p.m, StrV(inspect(p.a[1]))) ELSE push(p.m, StrV(<<>>))

\* Gs::bang
bang(m) ==
  LET p == pop(m)
  IN IF IsSome(p.a) THEN push(p.m, GBool(Falsey(p.a[1]))) ELSE push(p.m, GBool(TRUE))

\* a variant of Gs::at_sign that rotates the other way: a b c to c a b
at_sign_back(m) ==
  LET pc == pop(m)
      pb == pop(pc.m)
      pa == pop(pb.m)
  IN IF ~IsSome(pc.a) THEN push(push(push(pc.m, EmptyArr), EmptyArr), EmptyArr)
     ELSE IF ~IsSome(pb.a) THEN push(push(push(pb.m, EmptyArr), pc.a[1]), EmptyArr)
     ELSE IF ~IsSome(pa.a) THEN push(push(push(pa.m, pb.a[1]), pc.a[1]), EmptyArr)
     ELSE push(push(push(pa.m, pc.a[1]), pa.a[1]), pb.a[1])

\* Gs::at_sign
at_sign(m) ==
  LET pc == pop(m)
      pb == pop(pc.m)
      pa == pop(pb.m)
  IN IF ~IsSome(pc.a) THEN push(push(push(pc.m, EmptyArr), EmptyArr), EmptyArr)
     ELSE IF ~IsSome(pb.a) THEN push(push(push(pb.m, EmptyArr), pc.a[1]), EmptyArr)
     ELSE IF ~IsSome(pa.a) THEN push(push(push(pa.m, pb.a[1]), pc.a[1]), EmptyArr)
     ELSE push(push(push(pa.m, pb.a[1]), pc.a[1]), pa.a[1])

\* a variant of Gs::dollar that counts the positions from 1
dollar_from_one(m) ==
  LET p == pop(m)
      len == Len(p.m.stack)
      n == Val(p.a[1])
  IN CASE ~IsSome(p.a) -> push(p.m, EmptyArr)
       [] IsSome(p.a) /\ Tag(p.a[1]) = "Int" ->
            IF n < -1
            THEN IF -n - 2 < len THEN push(p.m, p.m.stack[-n - 1]) ELSE p.m
            ELSE IF n >= 1 /\ n <= len THEN push(p.m, p.m.stack[len - n + 1]) ELSE p.m

\* Gs::dollar; the sort branches (Arr, Str, Blk on top) are not modelled
dollar(m) ==
  LET p == pop(m)
      len == Len(p.m.stack)
      n == Val(p.a[1])
  IN CASE ~IsSome(p.a) -> push(p.m, EmptyArr)
       [] IsSome(p.a) /\ Tag(p.a[1]) = "Int" ->
            IF n < -1
            THEN IF -n - 2 < len THEN push(p.m, p.m.stack[-n - 1]) ELSE p.m
            ELSE IF n >= 0 /\ n < len THEN push(p.m, p.m.stack[len - n]) ELSE p.m

\* a variant of Gs::plus whose missing operands are Int 0
plus_zero(m) ==
  LET p == Pop2(m, IntV(0))
  IN push(p.m, plus_val(p.a, p.b))

\* Gs::plus
plus(m) ==
  LET p == Pop2(m, EmptyArr)
  IN push(p.m, plus_val(p.a, p.b))

\* the symbol "[": self.lb.push(self.stack.len())
left_bracket(m) == [m EXCEPT !.lb = Append(@, Len(m.stack))]

\* the symbol "]": drain from self.lb.pop().unwrap_or(0) and push the Arr
right_bracket(m) ==
  LET k == IF Len(m.lb) = 0 THEN 0 ELSE m.lb[Len(m.lb)]
      l == IF Len(m.lb) = 0 THEN m.lb ELSE SubSeq(m.lb, 1, Len(m.lb) - 1)
      d == Drain([m EXCEPT !.lb = l], k)
  IN IF d.m.aborted THEN d.m ELSE push(d.m, ArrV(d.vs))

\* a variant of the symbol "\" that puts the two values back as they were
swap_back(m) ==
  LET pb == pop(m)
      pa == pop(pb.m)
  IN IF ~IsSome(pb.a) THEN pb.m
     ELSE IF ~IsSome(pa.a) THEN push(pa.m, pb.a[1])
     ELSE push(push(pa.m, pa.a[1]), pb.a[1])

\* the symbol "\"
swap(m) ==
  LET pb == pop(m)
      pa == pop(pb.m)
  IN IF ~IsSome(pb.a) THEN pb.m
     ELSE IF ~IsSome(pa.a) THEN push(pa.m, pb.a[1])
     ELSE push(push(pa.m, pb.a[1]), pa.a[1])

\* the symbol ";"
semicolon(m) == pop(m).m

\* a variant of Gs::left_paren that pushes the first element below the rest
left_paren_under(m) ==
  LET p == pop(m)
  IN IF ~IsSome(p.a) THEN push(p.m, IntV(0 - 1))
     ELSE LET v == p.a[1]
          IN IF Tag(v) = "Int" THEN push(p.m, IntV(Val(v) - 1))
             ELSE IF Len(Val(v)) = 0 THEN p.m
             ELSE push(push(p.m, Elems(v)[1]), <<Tag(v), Tail(Val(v))>>)

\* Gs::left_paren
left_paren(m) ==
  LET p == pop(m)
  IN IF ~IsSome(p.a) THEN push(p.m, IntV(0 - 1))
     ELSE LET v == p.a[1]
          IN IF Tag(v) = "Int" THEN push(p.m, IntV(Val(v) - 1))
             ELSE IF Len(Val(v)) = 0 THEN p.m
             ELSE push(push(p.m, <<Tag(v), Tail(Val(v))>>), Elems(v)[1])

\* Gs::right_paren
right_paren(m) ==
  LET p == pop(m)
  IN IF ~IsSome(p.a) THEN push(p.m, IntV(0 + 1))
     ELSE LET v == p.a[1]
              n == Len(Val(v))
          IN IF Tag(v) = "Int" THEN push(p.m, IntV(Val(v) + 1))
             ELSE IF n = 0 THEN p.m
             ELSE push(push(p.m, <<Tag(v), SubSeq(Val(v), 1, n - 1)>>), Elems(v)[n])

\* a variant of the loop of Gs::comma that also takes i = n
RangeLoop_through(r, i, n, loops, cap) ==
  LET turns == IF n - i + 1 < cap - loops THEN n - i + 1 ELSE cap - loops
  IN r \o [k \in 1..turns |-> IntV(i + k - 1)]

\* the loop of Gs::comma on an Int: i counts up by one while i < n and
\* loops < max_loops, so it turns min(n - i, cap - loops) times
RangeLoop(r, i, n, loops, cap) ==
  LET turns == IF n - i < cap - loops THEN n - i ELSE cap - loops
  IN r \o [k \in 1..turns |-> IntV(i + k - 1)]

\* A u64 is kept as its eight bytes, least significant first: the products of
\* Gs::rng are beyond the integers of the model checker.
RECURSIVE Bytes64(_, _)
Bytes64(n, k) == IF k = 0 THEN <<>> ELSE <<n % 256>> \o Bytes64(n \div 256, k - 1)
U64(n) == Bytes64(n, 8)

\* u64::overflowing_mul(k) followed by overflowing_add(c): the low eight
\* bytes of ls * k + c
RECURSIVE MulAdd64(_, _, _)
MulAdd64(ls, k, c) ==
  IF ls = <<>> THEN <<>>
  ELSE <<(Head(ls) * k + c) % 256>> \o MulAdd64(Tail(ls), k, (Head(ls) * k + c) \div 256)

\* a variant of Gs::rng without the increment
rng_noadd(m) == [m EXCEPT !.rng_state = MulAdd64(@, 1664525, 0)]

\* Gs::rng
rng(m) == [m EXCEPT !.rng_state = MulAdd64(@, 1664525, 1013904223)]

\* (256 * r) mod n for 0 <= r < n without a product above n: for a large n,
\* with n = 256 * q + t, it is 256 * (r mod q) - t * (r div q), plus n when
\* that is negative
Times256(r, n) ==
  LET q == n \div 256
      x == 256 * (r % q) - (n % 256) * (r \div q)
  IN IF n < 8388608 THEN (256 * r) % n ELSE IF x < 0 THEN x + n ELSE x

\* (x + y) mod n for 0 <= x, y < n without a sum above n
AddMod(x, y, n) == IF x >= n - y THEN x - (n - y) ELSE x + y

\* u64 % BigInt for a positive n
RECURSIVE Rem64(_, _)
Rem64(ls, n) ==
  IF ls = <<>> THEN 0
  ELSE AddMod(Times256(Rem64(Tail(ls), n), n), Head(ls) % n, n)

\* Gs::rand
rand(m) ==
  LET p == pop(m)
  IN IF IsSome(p.a) /\ Tag(p.a[1]) = "Int" /\ Val(p.a[1]) > 0
     THEN LET g == rng(p.m) IN push(g, IntV(Rem64(g.rng_state, Val(p.a[1]))))
     ELSE push(p.m, IntV(0))

\* a variant of Integer::div_floor that rounds toward zero
DivFloor_trunc(a, b) ==
  LET q == (IF a < 0 THEN -a ELSE a) \div (IF b < 0 THEN -b ELSE b)
  IN IF (a < 0) # (b < 0) THEN -q ELSE q

\* Integer::div_floor, Integer::mod_floor (b # 0)
DivFloor(a, b) == IF b > 0 THEN a \div b ELSE (-a) \div (-b)
ModFloor(a, b) == a - b * DivFloor(a, b)

\* util::repeat
RECURSIVE repeat(_, _)
repeat(a, n) == IF n <= 0 THEN <<>> ELSE a \o repeat(a, n - 1)

\* the activation record of a handler that runs code once per element:
\* Gs::gs_map, Gs::fold, Gs::each
IterFrame(kind, code, vs, wrap) ==
  [k |-> kind, code |-> code, vs |-> vs, r |-> <<>>, lbl |-> 0, i |-> 0,
   st |-> "next", wrap |-> wrap]

\* the activation record of a loop: times, do, while/until, unfold
LoopFrame(kind, a, b, n, which) ==
  [k |-> kind, a |-> a, b |-> b, n |-> n, which |-> which, r |-> <<>>,
   loops |-> 0, st |-> "head"]

\* Gs::asterisk; the join branches (two sequences) are not modelled
asterisk(m) ==
  LET p == Pop2(m, EmptyArr)
      a == p.a
      b == p.b
      ta == Tag(a)
      tb == Tag(b)
  IN CASE ta = "Int" /\ tb = "Int" -> push(p.m, IntV(Val(a) * Val(b)))
       [] ta = "Blk" /\ tb = "Blk" -> Call(p.m, IterFrame("fold", Val(a), Elems(b), "Arr"))
       [] ta = "Blk" /\ tb \in {"Str", "Arr"} ->
            Call(p.m, IterFrame("fold", Val(a), Elems(b), "Arr"))
       [] ta \in {"Str", "Arr"} /\ tb = "Blk" ->
            Call(p.m, IterFrame("fold", Val(b), Elems(a), "Arr"))
       [] ta = "Int" /\ tb \in {"Str", "Arr"} -> push(p.m, <<tb, repeat(Val(b), Val(a))>>)
       [] ta \in {"Str", "Arr"} /\ tb = "Int" -> push(p.m, <<ta, repeat(Val(a), Val(b))>>)
       [] ta = "Int" /\ tb = "Blk" -> Call(p.m, LoopFrame("times", b, b, Val(a), TRUE))
       [] ta = "Blk" /\ tb = "Int" -> Call(p.m, LoopFrame("times", a, a, Val(b), TRUE))

\* the Arr of the fragments of a split, each of kind tag
Fragments(frags, tag) ==
  ArrV([i \in 1..Len(frags) |->
          IF tag = "Str" THEN StrV(Bytes(frags[i])) ELSE ArrV(frags[i])])

\* the split branches of Gs::slash (clean = FALSE) and Gs::percent (clean = TRUE)
SplitBranch(m, a, b, clean) ==
  LET ta == Tag(a)
      tb == Tag(b)
      seq == IF ta = "Arr" THEN a ELSE IF tb = "Arr" THEN b ELSE a
      sep == IF ta = "Arr" THEN b ELSE IF tb = "Arr" THEN a ELSE b
  IN IF Len(Val(sep)) = 0 THEN push(m, seq)
     ELSE push(m, Fragments(split(Elems(seq), Elems(sep), clean),
                            IF ta = "Str" /\ tb = "Str" THEN "Str" ELSE "Arr"))

\* Gs::slash; the chunk branches (Int with a sequence) are not modelled
slash(m) ==
  LET p == Pop2(m, EmptyArr)
      a == p.a
      b == p.b
      ta == Tag(a)
      tb == Tag(b)
  IN CASE ta = "Int" /\ tb = "Int" ->
            IF Val(b) = 0 THEN push(p.m, IntV(0))
            ELSE push(p.m, IntV(DivFloor(Val(a), Val(b))))
       [] ta \in {"Str", "Arr"} /\ tb \in {"Str", "Arr"} -> SplitBranch(p.m, a, b, FALSE)
       [] ta \in {"Str", "Arr"} /\ tb = "Blk" ->
            Call(p.m, IterFrame("each", Val(b), Elems(a), "Arr"))
       [] ta = "Blk" /\ tb \in {"Str", "Arr"} ->
            Call(p.m, IterFrame("each", Val(a), Elems(b), "Arr"))
       [] ta = "Blk" /\ tb = "Blk" -> Call(p.m, LoopFrame("unfold", a, b, 0, TRUE))
       [] ta = "Blk" /\ tb = "Int" -> Call(p.m, IterFrame("each", Val(a), <<b>>, "Arr"))
       [] ta = "Int" /\ tb = "Blk" -> Call(p.m, IterFrame("each", Val(b), <<a>>, "Arr"))

\* Gs::percent
percent(m) ==
  LET p == Pop2(m, EmptyArr)
      a == p.a
      b == p.b
      ta == Tag(a)
      tb == Tag(b)
  IN CASE ta = "Int" /\ tb = "Int" ->
            IF Val(b) = 0 THEN push(p.m, IntV(0))
            ELSE push(p.m, IntV(ModFloor(Val(a), Val(b))))
       [] ta \in {"Str", "Arr"} /\ tb \in {"Str", "Arr"} -> SplitBranch(p.m, a, b, TRUE)
       [] ta \in {"Str", "Arr"} /\ tb = "Blk" ->
            Call(p.m, IterFrame("map", Val(b), Elems(a), ta))
       [] ta = "Blk" /\ tb \in {"Str", "Arr"} ->
            Call(p.m, IterFrame("map", Val(a), Elems(b), tb))
       [] ta = "Int" /\ tb \in {"Str", "Arr"} ->
            IF Val(a) = 0 THEN push(p.m, b)
            ELSE push(p.m, <<tb, every_nth(Val(b), Val(a))>>)
       [] ta \in {"Str", "Arr"} /\ tb = "Int" ->
            IF Val(b) = 0 THEN push(p.m, a)
            ELSE push(p.m, <<ta, every_nth(Val(a), Val(b))>>)
       [] ta = "Int" /\ tb = "Blk" -> Call(p.m, IterFrame("map", Val(b), <<a>>, "Arr"))
       [] ta = "Blk" /\ tb = "Int" -> Call(p.m, IterFrame("map", Val(a), <<b>>, "Arr"))
       [] ta = "Blk" /\ tb = "Blk" -> Call(p.m, IterFrame("map", Val(b), <<a>>, "Arr"))

\* Gs::comma; the select branch (a Blk on top) is not modelled
comma(m) ==
  LET p == pop(m)
  IN IF ~IsSome(p.a) THEN push(p.m, EmptyArr)
     ELSE LET v == p.a[1]
          IN CASE Tag(v) = "Int" ->
                    push(p.m, ArrV(RangeLoop(<<>>, 0, Val(v), 0, p.m.max_loops)))
               [] Tag(v) \in {"Arr", "Str"} -> push(p.m, IntV(Len(Val(v))))

\* Gs::do_loop up to its loop
do_loop(m) ==
  LET p == pop(m)
  IN IF IsSome(p.a) THEN Call(p.m, LoopFrame("do", p.a[1], p.a[1], 0, TRUE)) ELSE p.m

\* Gs::while_loop up to its loop
while_loop(m, which) ==
  LET p == Pop2(m, EmptyArr)
  IN Call(p.m, LoopFrame("while", p.a, p.b, 0, which))

\* the transpose built by Gs::zip from rows that are Arrs: column y holds, in
\* row order, the element y of every row that has one
Transpose(rows) ==
  LET RECURSIVE Widest(_)
      Widest(rs) ==
        IF rs = <<>> THEN 0
        ELSE LET w == Widest(Tail(rs))
             IN IF Len(Val(Head(rs))) > w THEN Len(Val(Head(rs))) ELSE w
      RECURSIVE Column(_, _)
      Column(rs, y) ==
        IF rs = <<>> THEN <<>>
        ELSE (IF Len(Val(Head(rs))) >= y THEN <<Val(Head(rs))[y]>> ELSE <<>>)
             \o Column(Tail(rs), y)
  IN [y \in 1..Widest(rows) |-> ArrV(Column(rows, y))]

\* Gs::zip, for an Arr whose rows are Arrs; self.pop().unwrap() panics on an
\* empty stack and unwrap_arr() on a value that is no Arr
zip(m) ==
  LET p == pop(m)
  IN IF ~IsSome(p.a) THEN Panic(p.m)
     ELSE IF Tag(p.a[1]) # "Arr" THEN Panic(p.m)
     ELSE push(p.m, ArrV(Transpose(Val(p.a[1]))))

\* a variant of the digit loop of Gs::base that stops before the most
\* significant digit
RECURSIVE DigitLoop_short(_, _, _, _, _)
DigitLoop_short(digits, i, b, loops, cap) ==
  IF i >= b /\ b > 1 /\ loops < cap
  THEN DigitLoop_short(Append(digits, IntV(i % b)), i \div b, b, loops + 1, cap)
  ELSE digits

\* the digit loop of Gs::base: least significant digit first.  With b = 1 the
\* quotient is i again and the digit 0, so the loop turns until loops = cap
RECURSIVE DigitLoop(_, _, _, _, _)
DigitLoop(digits, i, b, loops, cap) ==
  IF i # 0 /\ loops < cap
  THEN IF b = 1 THEN digits \o [k \in 1..(cap - loops) |-> IntV(0)]
       ELSE DigitLoop(Append(digits, IntV(ModFloor(i, b))), DivFloor(i, b), b,
                      loops + 1, cap)
  ELSE digits

\* the reduction of Gs::base: total * b + digit over the digits
RECURSIVE DigitSum(_, _, _)
DigitSum(ds, b, total) ==
  IF ds = <<>> THEN total ELSE DigitSum(Tail(ds), b, total * b + Val(Head(ds)))

\* a sequence of Ints without its leading zeros
Unpadded(ds) ==
  LET nz == {j \in 1..Len(ds) : Val(ds[j]) # 0}
  IN IF nz = {} THEN <<>>
     ELSE SubSeq(ds, CHOOSE j \in nz : \A k \in nz : j <= k, Len(ds))

\* the digit loop of Gs::base with b = 10 on an Int beyond i32, after the
\* reverse: the decimal digits of |n|, the cap lowest ones when there are more
Decimals(n, cap) ==
  LET ds == Val(n).digits
      from == IF Len(ds) > cap THEN Len(ds) - cap ELSE 0
  IN [j \in 1..(Len(ds) - from) |-> IntV(ds[from + j] - 48)]

\* Gs::base; self.pop().unwrap().unwrap_int() panics on an empty stack and on
\* a value that is no Int, div_mod_floor on a zero base, unwrap_int on a digit
\* that is no Int.  Leading zero digits leave the total of the reduction at
\* 0, and in base 10 the digits 0..9 are the decimal text of the total; an
\* Int beyond i32 is taken to digits in base 10 only
base(m) ==
  LET pb == pop(m)
      pn == pop(pb.m)
  IN IF ~IsSome(pb.a) THEN Panic(pb.m)
     ELSE IF Tag(pb.a[1]) # "Int" THEN Panic(pb.m)
     ELSE LET b == Val(pb.a[1])
          IN IF ~IsSome(pn.a) THEN push(pn.m, IntV(0))
             ELSE LET n == pn.a[1]
                      i == IF Val(n) < 0 THEN -Val(n) ELSE Val(n)
                      ds == Unpadded(Elems(n))
                  IN IF Tag(n) = "Int"
                     THEN IF IsHuge(n) /\ b = 10
                          THEN push(pn.m, ArrV(Decimals(n, pn.m.max_loops)))
                          ELSE IF i # 0 /\ pn.m.max_loops > 0 /\ b = 0 THEN Panic(pn.m)
                          ELSE push(pn.m, ArrV(Reverse(
                                 DigitLoop(<<>>, i, b, 0, pn.m.max_loops))))
                     ELSE IF \E j \in 1..Len(Elems(n)) : Tag(Elems(n)[j]) # "Int"
                          THEN Panic(pn.m)
                          ELSE IF b = 10 /\ \A j \in 1..Len(ds) : Val(ds[j]) \in 0..9
                          THEN push(pn.m, IF ds = <<>> THEN IntV(0)
                                          ELSE Literal([j \in 1..Len(ds) |-> 48 + Val(ds[j])]))
                          ELSE push(pn.m, IntV(DigitSum(ds, b, 0)))

\* Gval's Ord (value.rs is not part of the sources): "Less", "Equal" or
\* "Greater"; kinds in the order Int < Arr < Str < Blk, Ints by value,
\* sequences lexicographically, a Str and a Blk of the same bytes equal
RECURSIVE GvalCmp(_, _)
RECURSIVE SeqCmp(_, _, _, _)
SeqCmp(xs, ys, i, bytes) ==
  IF i > Len(xs) /\ i > Len(ys) THEN "Equal"
  ELSE IF i > Len(xs) THEN "Less"
  ELSE IF i > Len(ys) THEN "Greater"
  ELSE LET c == IF bytes THEN GvalCmp(IntV(xs[i]), IntV(ys[i]))
                 ELSE GvalCmp(xs[i], ys[i])
       IN IF c = "Equal" THEN SeqCmp(xs, ys, i + 1, bytes) ELSE c
GvalCmp(a, b) ==
  IF Tag(a) = "Int" /\ Tag(b) = "Int"
  THEN (IF Val(a) < Val(b) THEN "Less" ELSE IF Val(a) > Val(b) THEN "Greater" ELSE "Equal")
  ELSE IF Tag(a) = Tag(b) \/ {Tag(a), Tag(b)} = {"Str", "Blk"}
  THEN LET c == SeqCmp(Val(a), Val(b), 1, Tag(a) # "Arr")
       IN IF c = "Equal" /\ Rank(a) # Rank(b)
          THEN (IF Rank(a) < Rank(b) THEN "Less" ELSE "Greater")
          ELSE c
  ELSE IF Rank(a) < Rank(b) THEN "Less" ELSE "Greater"

\* util::index (util.rs is not part of the sources): a[i mod len], None when
\* a is empty
index(a, i) == IF a = <<>> THEN None ELSE Some(a[ModFloor(i, Len(a)) + 1])

\* util::slice (util.rs is not part of the sources): the first i elements for
\* Less, the others for Greater; a negative i counts from the end
slice(o, a, i) ==
  LET j == IF i < 0 THEN (IF Len(a) + i < 0 THEN 0 ELSE Len(a) + i)
           ELSE IF i > Len(a) THEN Len(a) ELSE i
  IN IF o = "Less" THEN SubSeq(a, 1, j) ELSE SubSeq(a, j + 1, Len(a))

\* a * k for the decimal digits a, least significant first
RECURSIVE MulDigits(_, _, _)
MulDigits(ds, k, carry) ==
  IF ds = <<>> THEN (IF carry = 0 THEN <<>> ELSE <<carry % 10>> \o MulDigits(<<>>, k, carry \div 10))
  ELSE <<(Head(ds) * k + carry) % 10>> \o MulDigits(Tail(ds), k, (Head(ds) * k + carry) \div 10)

\* the digits of a^e, least significant first
RECURSIVE PowDigits(_, _)
PowDigits(a, e) == IF e = 0 THEN <<1>> ELSE MulDigits(PowDigits(a, e - 1), a, 0)

\* the decimal text of digits given least significant first
RECURSIVE DigitText(_)
DigitText(ds) == IF ds = <<>> THEN <<>> ELSE DigitText(Tail(ds)) \o <<48 + Head(ds)>>

\* BigInt::pow for a base a >= 0
pow(a, e) == Literal(DigitText(PowDigits(a, e)))

\* 1 followed by zeros
IsPowerOfTen(a) == \E k \in 0..9 : DecBytes(a) = <<49>> \o [i \in 1..k |-> 48]

\* f64::log(f64::from(a), 10.0) * f64::from(e) < 100.0 for an a that fits
\* i32 and an e that fits u32. The logarithm of a negative number is NaN, the
\* logarithm of 0 is -inf and -inf * 0 is NaN; a comparison with NaN is
\* false. For a >= 2 with d digits, d - 1 <= log10(a) < d decides the test
\* when d * e <= 100 and when (d - 1) * e > 100; between these bounds the
\* result depends on the rounding of the f64 operations and is not modelled.
LogBelow(a, e) ==
  LET d == Len(DecBytes(Val(a)))
  IN CASE IsHuge(a) \/ Val(a) < 0 -> FALSE
       [] Val(a) = 0 -> ~IsHuge(e) /\ Val(e) > 0
       [] Val(a) = 1 -> TRUE
       [] Val(a) >= 2 /\ IsHuge(e) -> FALSE
       [] Val(a) >= 2 /\ ~IsHuge(e) /\ d * Val(e) <= 100 -> TRUE
       [] Val(a) >= 2 /\ ~IsHuge(e) /\ (d - 1) * Val(e) > 100 -> FALSE
       [] Val(a) >= 2 /\ ~IsHuge(e) /\ (d - 1) * Val(e) = 100 /\ ~IsPowerOfTen(Val(a)) -> FALSE

\* Iterator::position(|x| *x == n) as an Int, -1 for None
RECURSIVE Position(_, _, _)
Position(h, n, i) ==
  IF i > Len(h) THEN -1
  ELSE IF GvalEq(h[i], n) THEN i - 1
  ELSE Position(h, n, i + 1)

\* Gs::question; the Str branches of indexof and the find branches (a Blk
\* operand) are not modelled
question(m) ==
  LET p == Pop2(m, EmptyArr)
      a == p.a
      b == p.b
      ta == Tag(a)
      tb == Tag(b)
  IN CASE ta = "Int" /\ tb = "Int" ->
            IF ~FitsU32(b) THEN push(p.m, IntV(0))
            ELSE IF ~FitsI32(a) THEN Panic(p.m)
            ELSE IF ~LogBelow(a, b) THEN push(p.m, a)
            ELSE IF Val(a) = 1 \/ Val(a) = 0 THEN push(p.m, a)
            ELSE push(p.m, pow(Val(a), Val(b)))
       [] ta = "Arr" /\ tb \in {"Int", "Str", "Arr"} ->
            push(p.m, IntV(Position(Val(a), b, 1)))
       [] ta \in {"Int", "Str"} /\ tb = "Arr" ->
            push(p.m, IntV(Position(Val(b), a, 1)))

\* Gs::lteqgt
lteqgt(m, ordering) ==
  LET p == Pop2(m, EmptyArr)
      a == p.a
      b == p.b
      s == IF Tag(a) = "Int" THEN b ELSE a
      i == IF Tag(a) = "Int" THEN Val(a) ELSE Val(b)
  IN IF (Tag(a) = "Int") # (Tag(b) = "Int")
     THEN IF ordering = "Equal"
          THEN LET x == index(Val(s), i)
               IN IF ~IsSome(x) THEN p.m
                  ELSE push(p.m, IF Tag(s) = "Arr" THEN x[1] ELSE ByteV(x[1]))
          ELSE push(p.m, <<Tag(s), slice(ordering, Val(s), i)>>)
     ELSE push(p.m, GBool(GvalCmp(a, b) = ordering))

\* a variant of "and"/"or" that executes the unselected operand before the
\* selected one
and_or_both(m, is_and) ==
  LET pb == pop(m)
      pa == pop(pb.m)
      first == Truthy(pa.a[1]) = is_and
  IN IF ~IsSome(pb.a) THEN push(pb.m, GBool(FALSE))
     ELSE IF ~IsSome(pa.a) THEN go(pa.m, pb.a[1])
     ELSE go(go(pa.m, IF first THEN pa.a[1] ELSE pb.a[1]),
             IF first THEN pb.a[1] ELSE pa.a[1])

\* the symbols "and" (is_and = TRUE) and "or" (is_and = FALSE)
and_or(m, is_and) ==
  LET pb == pop(m)
      pa == pop(pb.m)
  IN IF ~IsSome(pb.a) THEN push(pb.m, GBool(FALSE))
     ELSE IF ~IsSome(pa.a) THEN go(pa.m, pb.a[1])
     ELSE IF is_and THEN go(pa.m, IF Truthy(pa.a[1]) THEN pb.a[1] ELSE pa.a[1])
     ELSE go(pa.m, IF Truthy(pa.a[1]) THEN pa.a[1] ELSE pb.a[1])

\* the symbol "xor"
xor(m) ==
  LET p == Pop2(m, GBool(FALSE))
  IN go(p.m, IF Truthy(p.a) /\ Falsey(p.b) THEN p.a
             ELSE IF Falsey(p.a) /\ Truthy(p.b) THEN p.b
             ELSE GBool(FALSE))

\* the symbol "if"
if_sym(m) ==
  LET pc == pop(m)
      p == Pop2(pc.m, GBool(FALSE))
  IN IF Truthy(p.a) THEN go(p.m, p.b) ELSE go(p.m, OrElse(pc.a, GBool(FALSE)))

\* the symbol "abs"
abs(m) ==
  LET p == pop(m)
      a == OrElse(p.a, IntV(0))
  IN IF Tag(a) = "Int" THEN push(p.m, IntV(IF Val(a) < 0 THEN -Val(a) ELSE Val(a)))
     ELSE push(p.m, a)

\* the symbols "print" (how = "print"), "p" and "puts"
print_sym(m, how) ==
  LET p == pop(m)
      text == IF ~IsSome(p.a) THEN <<>>
              ELSE IF how = "p" THEN inspect(p.a[1]) ELSE to_gs(p.a[1])
  IN IF how = "print" THEN print(p.m, text)
     ELSE IF IsSome(p.a) THEN print(print(p.m, text), <<10>>)
     ELSE print(p.m, <<10>>)

\* unescape::unescape (not part of the sources): the text of a string literal
RECURSIVE unescape(_, _)
unescape(bs, single) ==
  IF bs = <<>> THEN <<>>
  ELSE IF Head(bs) = 92 /\ Len(bs) >= 2
  THEN LET c == bs[2]
           rest == unescape(SubSeq(bs, 3, Len(bs)), single)
       IN IF single
          THEN IF c = 92 \/ c = 39 THEN <<c>> \o rest ELSE <<92, c>> \o rest
          ELSE CASE c = 110 -> <<10>> \o rest
                 [] c = 116 -> <<9>> \o rest
                 [] c = 114 -> <<13>> \o rest
                 [] c = 48 -> <<0>> \o rest
                 [] OTHER -> <<c>> \o rest
  ELSE <<Head(bs)>> \o unescape(Tail(bs), single)

(***************************************************************************)
(* Token dispatch.                                                         *)
(***************************************************************************)
Keywords ==
  {"and", "or", "xor", "n", "print", "p", "puts", "rand", "do", "while", "until",
   "if", "abs", "zip", "base", "~", "!", "@", "$", "+", "-", "*", "/", "%", "|",
   "&", "^", "[", "]", "\\", ";", "<", "=", ">", ",", ".", "?", "(", ")", ":"}

KeywordBytes == [w \in Keywords |-> B(w)]

\* the symbol a lexeme spells ("" when it spells none of the built-ins)
SymbolOf(lexeme) ==
  IF lexeme = <<96>> THEN "backtick"
  ELSE IF \E w \in Keywords : KeywordBytes[w] = lexeme
  THEN CHOOSE w \in Keywords : KeywordBytes[w] = lexeme
  ELSE ""

\* the match of Gs::run_token on a token that is no variable
builtin(m, token) ==
  LET sym == SymbolOf(token.lexeme)
  IN CASE token.kind = "IntLiteral" -> push(m, Literal(token.lexeme))
       [] token.kind = "SingleQuotedString" -> push(m, StrV(unescape(token.body, TRUE)))
       [] token.kind = "DoubleQuotedString" -> push(m, StrV(unescape(token.body, FALSE)))
       [] token.kind = "Block" -> push(m, BlkV(token.body))
       [] token.kind = "Comment" -> m
       [] token.kind = "Symbol" ->
            CASE sym = "~" -> tilde(m)
              [] sym = "backtick" -> backtick(m)
              [] sym = "!" -> bang(m)
              [] sym = "@" -> at_sign(m)
              [] sym = "$" -> dollar(m)
              [] sym = "+" -> plus(m)
              [] sym = "*" -> asterisk(m)
              [] sym = "/" -> slash(m)
              [] sym = "%" -> percent(m)
              [] sym = "[" -> left_bracket(m)
              [] sym = "]" -> right_bracket(m)
              [] sym = "\\" -> swap(m)
              [] sym = ";" -> semicolon(m)
              [] sym = "<" -> lteqgt(m, "Less")
              [] sym = "=" -> lteqgt(m, "Equal")
              [] sym = ">" -> lteqgt(m, "Greater")
              [] sym = "," -> comma(m)
              [] sym = "." -> dup(m)
              [] sym = "?" -> question(m)
              [] sym = "(" -> left_paren(m)
              [] sym = ")" -> right_paren(m)
              [] sym = "and" -> and_or(m, TRUE)
              [] sym = "or" -> and_or(m, FALSE)
              [] sym = "xor" -> xor(m)
              [] sym = "n" -> push(m, StrV(<<10>>))
              [] sym \in {"print", "p", "puts"} -> print_sym(m, sym)
              [] sym = "rand" -> rand(m)
              [] sym = "do" -> do_loop(m)
              [] sym = "while" -> while_loop(m, TRUE)
              [] sym = "until" -> while_loop(m, FALSE)
              [] sym = "if" -> if_sym(m)
              [] sym = "abs" -> abs(m)
              [] sym = "zip" -> zip(m)
              [] sym = "base" -> base(m)
              [] sym \in {"", ":"} -> m

\* a variant of Gs::run_token without the return after go(v), as in the
\* run_builtin of main.rs: the bound value, then the built-in
run_token_both(m, token) ==
  IF token.lexeme \in DOMAIN m.vars THEN builtin(go(m, m.vars[token.lexeme]), token)
  ELSE builtin(m, token)

\* Gs::run_token
run_token(m, token) ==
  IF token.lexeme \in DOMAIN m.vars THEN go(m, m.vars[token.lexeme])
  ELSE builtin(m, token)

(***************************************************************************)
(* The activations on the call stack.                                      *)
(***************************************************************************)
Top(m) == m.ctl[Len(m.ctl)]
SetTop(m, f) == [m EXCEPT !.ctl[Len(m.ctl)] = f]
DropTop(m) == [m EXCEPT !.ctl = SubSeq(@, 1, Len(@) - 1)]

\* one turn of the token loop of Gs::run on a token other than ":"
run_step(m) ==
  LET f == Top(m)
  IN run_token(SetTop(m, [f EXCEPT !.pc = @ + 1]), f.toks[f.pc])

\* a variant of the turn on ":" that takes the value off the stack
assign_step_pop(m) ==
  LET f == Top(m)
      p == pop(m)
  IN IF f.pc + 1 > Len(f.toks) THEN SetTop(m, [f EXCEPT !.pc = @ + 1])
     ELSE IF IsSome(p.a)
     THEN [SetTop(p.m, [f EXCEPT !.pc = @ + 2])
             EXCEPT !.vars = (f.toks[f.pc + 1].lexeme :> p.a[1]) @@ @]
     ELSE SetTop(p.m, [f EXCEPT !.pc = @ + 2])

\* a variant of the turn on ":" that binds an empty Arr when the stack is empty
assign_step_default(m) ==
  LET f == Top(m)
      t == top(m)
  IN IF f.pc + 1 > Len(f.toks) THEN SetTop(m, [f EXCEPT !.pc = @ + 1])
     ELSE [SetTop(m, [f EXCEPT !.pc = @ + 2])
             EXCEPT !.vars = (f.toks[f.pc + 1].lexeme :> OrElse(t, EmptyArr)) @@ @]

\* one turn of the token loop of Gs::run on ":": the next token is the name
assign_step(m) ==
  LET f == Top(m)
      t == top(m)
  IN IF f.pc + 1 > Len(f.toks) THEN SetTop(m, [f EXCEPT !.pc = @ + 1])
     ELSE IF IsSome(t)
     THEN [SetTop(m, [f EXCEPT !.pc = @ + 2])
             EXCEPT !.vars = (f.toks[f.pc + 1].lexeme :> t[1]) @@ @]
     ELSE SetTop(m, [f EXCEPT !.pc = @ + 2])

\* Gs::gs_map and the push of its result by Gs::percent: before an element
\* (st = "next") and after the run of the block on it (st = "drain")
map_step(m) ==
  LET f == Top(m)
  IN IF f.st = "drain"
     THEN LET d == Drain(m, f.lbl)
          IN IF d.m.aborted THEN d.m
             ELSE SetTop(d.m, [f EXCEPT !.r = @ \o d.vs, !.st = "next"])
     ELSE IF f.vs = <<>>
     THEN push(DropTop(m), IF f.wrap = "Str" THEN StrV(flatten(f.r)) ELSE ArrV(f.r))
     ELSE run(push(SetTop(m, [f EXCEPT !.vs = Tail(@), !.lbl = Len(m.stack),
                                       !.st = "drain"]),
                   Head(f.vs)),
              f.code)

\* one turn of the loop of Gs::fold
fold_step(m) ==
  LET f == Top(m)
      m2 == push(SetTop(m, [f EXCEPT !.vs = Tail(@), !.i = @ + 1]), Head(f.vs))
  IN IF f.vs = <<>> THEN DropTop(m)
     ELSE IF f.i >= 1 THEN run(m2, f.code) ELSE m2

\* one turn of the loop of Gs::each
each_step(m) ==
  LET f == Top(m)
  IN IF f.vs = <<>> THEN DropTop(m)
     ELSE run(push(SetTop(m, [f EXCEPT !.vs = Tail(@)]), Head(f.vs)), f.code)

\* a variant of the times loop that does not stop at max_loops
times_step_uncapped(m) ==
  LET f == Top(m)
  IN IF f.n > 0
     THEN run(SetTop(m, [f EXCEPT !.loops = @ + 1, !.n = @ - 1]), Val(f.a))
     ELSE DropTop(m)

\* one turn of the times loop of Gs::asterisk
times_step(m) ==
  LET f == Top(m)
  IN IF f.n > 0 /\ f.loops < m.max_loops
     THEN run(SetTop(m, [f EXCEPT !.loops = @ + 1, !.n = @ - 1]), Val(f.a))
     ELSE DropTop(m)

\* a variant of the do loop that repeats on every popped value
do_step_always(m) ==
  LET f == Top(m)
      p == pop(m)
  IN IF f.st = "head"
     THEN IF f.loops >= m.max_loops THEN DropTop(m)
          ELSE go(SetTop(m, [f EXCEPT !.loops = @ + 1, !.st = "test"]), f.a)
     ELSE IF IsSome(p.a) THEN SetTop(p.m, [f EXCEPT !.st = "head"])
          ELSE DropTop(p.m)

\* the loop of Gs::do_loop: its head up to go (st = "head") and the test of
\* the popped value (st = "test")
do_step(m) ==
  LET f == Top(m)
      p == pop(m)
  IN IF f.st = "head"
     THEN IF f.loops >= m.max_loops THEN DropTop(m)
          ELSE go(SetTop(m, [f EXCEPT !.loops = @ + 1, !.st = "test"]), f.a)
     ELSE IF IsSome(p.a) /\ ~Falsey(p.a[1]) THEN SetTop(p.m, [f EXCEPT !.st = "head"])
          ELSE DropTop(p.m)

\* the loop of Gs::while_loop: its head up to go(a) (st = "head") and the
\* test of the popped value up to go(b) (st = "test")
while_step(m) ==
  LET f == Top(m)
      p == pop(m)
      stop == IF IsSome(p.a) THEN Falsey(p.a[1]) = f.which ELSE ~f.which
  IN IF f.st = "head"
     THEN IF f.loops >= m.max_loops THEN DropTop(m)
          ELSE go(SetTop(m, [f EXCEPT !.loops = @ + 1, !.st = "test"]), f.a)
     ELSE IF stop THEN DropTop(p.m)
          ELSE go(SetTop(p.m, [f EXCEPT !.st = "head"]), f.b)

\* a variant of the unfold loop that leaves without the pop
unfold_step_nopop(m) ==
  LET f == Top(m)
      leave(x) == push(DropTop(x), ArrV(f.r))
      t == top(m)
      p == pop(m)
      t2 == top(p.m)
  IN IF f.st = "head"
     THEN IF f.loops >= m.max_loops THEN leave(m)
          ELSE run(push(SetTop(m, [f EXCEPT !.loops = @ + 1, !.st = "test"]),
                        OrElse(t, EmptyArr)),
                   Val(f.a))
     ELSE IF ~IsSome(p.a) \/ Falsey(p.a[1]) THEN leave(p.m)
          ELSE run(SetTop(p.m, [f EXCEPT !.r = Append(@, OrElse(t2, EmptyArr)),
                                         !.st = "head"]),
                   Val(f.b))

\* the unfold loop of Gs::slash: its head up to run(cond) (st = "head"), the
\* test up to run(step) (st = "test"); on leaving, pop and push the Arr
unfold_step(m) ==
  LET f == Top(m)
      leave(x) == push(pop(DropTop(x)).m, ArrV(f.r))
      t == top(m)
      p == pop(m)
      t2 == top(p.m)
  IN IF f.st = "head"
     THEN IF f.loops >= m.max_loops THEN leave(m)
          ELSE run(push(SetTop(m, [f EXCEPT !.loops = @ + 1, !.st = "test"]),
                        OrElse(t, EmptyArr)),
                   Val(f.a))
     ELSE IF ~IsSome(p.a) \/ Falsey(p.a[1]) THEN leave(p.m)
          ELSE run(SetTop(p.m, [f EXCEPT !.r = Append(@, OrElse(t2, EmptyArr)),
                                         !.st = "head"]),
                   Val(f.b))

(***************************************************************************)
(* golfscript(input, source) and the state machine.                        *)
(***************************************************************************)
\* bounds of the model
MaxTokens == 3
MaxDepth == 4

\* the inputs golfscript is called with on a source of Pieces; the Scenarios
\* are run on the empty input
Inputs == {<<>>, B("1 2")}

\* the source texts golfscript is called with (scen = 1, 2, ...); with
\* scen = 0 the source is any sequence of at most MaxTokens of the Pieces
Scenarios ==
  << B("[;;;1 2 3]"),
     B("[1 2 3 4]{.*}%"),
     B("1{.[}%[0;]"),
     B("[1 2]{.[}%"),
     B(";zip"),
     B(";;base"),
     B("[[1 2][3]]zip 5 2base"),
     B("1:: :a a"),
     B("5:+;1 2+"),
     B("{1}:+;2+"),
     B("1{.[}%]"),
     B("3000{}*"),
     B("{1}do"),
     B("{1}{}while"),
     B("{0}{}until"),
     B("1{;1}{}/;"),
     B("3000,;"),
     B("3000 1base;"),
     B("[1 2 3]{+}*[1 2]{;}/"),
     B(";abs;if;xor;and;or;") \o <<96>>,
     B(";~;,;p;(;);") \o <<92>>,
     B(";1if;1xor;1") \o <<92>> \o B(";rand;print puts@;;;1@;;;1 2@"),
     B("7:1;1 1"),
     B("5:{a};{a}"),
     B("1:a;2:a"),
     B("1:a;;:a a"),
     B("1:puts;"),
     B("1 2}"),
     B("1'}'~"),
     B("1'}'{}+~"),
     B("1print 2p 3puts"),
     B("3,0,"),
     B("[1 2 3]{;;}%"),
     B("0 1{100<}{.@+}/"),
     B("2 10?3 0?"),
     B("2 -1?7 4294967296?"),
     B("-2 3?"),
     B("0 0?"),
     B("100 100?5 4294967295?10 20?"),
     B("3000000000 2?"),
     B("?[5]5?"),
     B("7 0/7 0%"),
     B("-7 2/-7 2%7 -2/7 -2%7 2/7 2%"),
     B("0 1 1{}do"),
     B(";{}do 5 do;do"),
     B(";{}{1p}while"),
     B("0 1{}{}while 1 0{}{}until;;{}{}until"),
     B("1 2and 0 2and 1 2or 0 2or"),
     B("1{5}and 0{6}and{7}0or{}{8}or"),
     B("10rand 10rand 1000000rand 2147483647rand"),
     B("0rand -3rand'a'rand{}rand;;;;;rand 1rand"),
     B("5 6 7 0$4$1$"),
     B("5 6 7 9$4$-1$-2$-9$;;;;;$"),
     B("1 2 3@"),
     B("9 1 'b'{3}@@@@"),
     B("5.;'ab'.;{x}.;[1 2].;"),
     B("1[.;]."),
     B("1 2") \o <<92, 92>>,
     B("7'a'{b}") \o <<92, 92, 92>>,
     B("5(5)-1)0("),
     B("[1 2 3]([1 2 3])"),
     B("'abc'('abc'){xy}({xy})[[4]]()"),
     B("255 2base 2base -255 16base 16base 0 7base 7base"),
     B("2147483647 10base 10base 12345678901 10base 10base"),
     <<49>> \o [j \in 1..SandboxMaxLoops |-> 48] \o B(" 10base 10base"),
     B("{.~}.~"),
     B("{a}:a;a"),
     B("'.~'.~"),
     B("{1}:a;a{a}~'a'~") >>

Pieces ==
  { B("1"), B("0"), B("["), B("]"), B(";"), B("."), B("+"), B("~"), B("%"),
    B("("), B("!"), B("{.[}"), B("{;}"), B(":a"), B("a"), B(":+") }

Init ==
  /\ scen \in 0..Len(Scenarios)
  /\ \E input \in (IF scen = 0 THEN Inputs ELSE {<<>>}) : stack = <<StrV(input)>>
  /\ vars = <<>>
  /\ lb = <<>>
  /\ rng_state = U64(RngSeed)
  /\ stable = TRUE
  /\ output = <<>>
  /\ max_loops = SandboxMaxLoops
  /\ feed = IF scen = 0 THEN MaxTokens ELSE 0
  /\ ctl = run([ctl |-> <<>>], IF scen = 0 THEN <<>> ELSE Scenarios[scen]).ctl
  /\ aborted = FALSE
  /\ phase = "run"
  /\ pops = <<>>
  /\ last = [act |-> "Init", lexeme |-> <<>>]
  /\ overflow_checks = FALSE  \* no step of lib.rs modelled here overflows

\* the step act leaves the evaluator as m
Commit(m, act, lexeme) ==
  /\ Len(m.ctl) <= MaxDepth
  /\ stack' = m.stack
  /\ vars' = m.vars
  /\ lb' = m.lb
  /\ rng_state' = m.rng_state
  /\ stable' = m.stable
  /\ output' = m.output
  /\ max_loops' = m.max_loops
  /\ ctl' = m.ctl
  /\ aborted' = m.aborted
  /\ pops' = m.pops
  /\ last' = [act |-> act, lexeme |-> lexeme]
  /\ UNCHANGED <<phase, feed, scen, overflow_checks>>

\* the kind of the activation on top of the call stack ("" when there is none)
Active == IF aborted \/ ctl = <<>> THEN "" ELSE ctl[Len(ctl)].k

\* the token the top activation of Gs::run is about to execute
AtToken == Active = "run" /\ ctl[Len(ctl)].pc <= Len(ctl[Len(ctl)].toks)
CurToken == ctl[Len(ctl)].toks[ctl[Len(ctl)].pc]
IsColon(token) == token.kind = "Symbol" /\ token.lexeme = <<58>>

\* the source goes on with one more piece
Feed ==
  /\ Active = "run" /\ Len(ctl) = 1 /\ ~AtToken /\ phase = "run"
  /\ feed > 0
  /\ \E piece \in Pieces :
       ctl' = <<[k |-> "run", toks |-> parse_code(piece).tokens, pc |-> 1]>>
  /\ feed' = feed - 1
  /\ pops' = <<>>
  /\ last' = [act |-> "Feed", lexeme |-> <<>>]
  /\ UNCHANGED <<stack, vars, lb, rng_state, stable, output, max_loops, aborted,
                 phase, scen, overflow_checks>>

\* a variant of the token step in which the RNG may have been seeded anew
StepToken_reseeded ==
  /\ AtToken /\ ~IsColon(CurToken)
  /\ \E seed \in {rng_state, U64(1)} :
       Commit(run_step([Machine EXCEPT !.rng_state = seed]), "StepToken", CurToken.lexeme)

StepToken == AtToken /\ ~IsColon(CurToken) /\ Commit(run_step(Machine), "StepToken", CurToken.lexeme)

Assign == AtToken /\ IsColon(CurToken) /\ Commit(assign_step(Machine), "Assign", CurToken.lexeme)

\* Gs::run returns
Return == Active = "run" /\ ~AtToken /\ Commit(DropTop(Machine), "Return", <<>>)

MapStep == Active = "map" /\ Commit(map_step(Machine), "MapStep", <<>>)

FoldStep == Active = "fold" /\ Commit(fold_step(Machine), "FoldStep", <<>>)

EachStep == Active = "each" /\ Commit(each_step(Machine), "EachStep", <<>>)

TimesStep == Active = "times" /\ Commit(times_step(Machine), "TimesStep", <<>>)

DoStep == Active = "do" /\ Commit(do_step(Machine), "DoStep", <<>>)

WhileStep == Active = "while" /\ Commit(while_step(Machine), "WhileStep", <<>>)

UnfoldStep == Active = "unfold" /\ Commit(unfold_step(Machine), "UnfoldStep", <<>>)

\* golfscript after gs.run(&source): wrap the stack and run "puts"
Wrap ==
  /\ ~aborted /\ ctl = <<>> /\ phase = "run"
  /\ stack' = <<ArrV(stack)>>
  /\ ctl' = run([ctl |-> <<>>], B("puts")).ctl
  /\ phase' = "puts"
  /\ pops' = <<>>
  /\ last' = [act |-> "Wrap", lexeme |-> <<>>]
  /\ UNCHANGED <<vars, lb, rng_state, stable, output, max_loops, aborted, feed, scen,
                 overflow_checks>>

\* golfscript returns gs.output
Done ==
  /\ ~aborted /\ ctl = <<>> /\ phase = "puts"
  /\ phase' = "done"
  /\ pops' = <<>>
  /\ last' = [act |-> "Done", lexeme |-> <<>>]
  /\ UNCHANGED <<stack, vars, lb, rng_state, stable, output, max_loops, ctl, aborted,
                 feed, scen, overflow_checks>>

Next ==
  \/ Feed
  \/ StepToken
  \/ Assign
  \/ Return
  \/ MapStep
  \/ FoldStep
  \/ EachStep
  \/ TimesStep
  \/ DoStep
  \/ WhileStep
  \/ UnfoldStep
  \/ Wrap
  \/ Done

Spec == Init /\ [][Next]_vars_all

(***************************************************************************)
(* Properties of the bracket stack and of pop.                             *)
(***************************************************************************)
\* some pop of the last step found the stack empty
Underflowed == \E i \in 1..Len(pops) : pops[i].len = 0

\* the source text golfscript was called with is text
Running(text) == scen > 0 /\ Scenarios[scen] = text

\* the last step executed the token spelled lexeme
Executed(lexeme) == last.act = "StepToken" /\ last.lexeme = lexeme

\* C1: while the tokens of the source text are executed, at the moment of
\* every pop every entry of the bracket stack is at most the length of the
\* stack
C1_BracketsWithinStack ==
  phase = "run" =>
    \A i \in 1..Len(pops) :
      \A j \in 1..Len(pops[i].lb) : pops[i].lb[j] <= pops[i].len

\* C2: every pop lowers by one (not below 0) every entry of the bracket
\* stack that is at least the length of the stack before the pop, and leaves
\* every smaller entry as it is
C2_PopLowersEveryEntry ==
  \A i \in 1..Len(pops) :
    /\ Len(pops[i].after) = Len(pops[i].lb)
    /\ \A j \in 1..Len(pops[i].lb) :
         pops[i].after[j] =
           IF pops[i].lb[j] >= pops[i].len
           THEN (IF pops[i].lb[j] > 0 THEN pops[i].lb[j] - 1 ELSE 0)
           ELSE pops[i].lb[j]

\* the top activation is about to execute the built-in spelled lexeme
AtBuiltin(lexeme) ==
  /\ AtToken
  /\ CurToken.kind = "Symbol"
  /\ CurToken.lexeme = lexeme
  /\ lexeme \notin DOMAIN vars

\* C3: executing "]" takes the top entry k off the bracket stack (k = 0 when
\* it is empty), takes the stack elements from index k on off the stack and
\* pushes them, in their order, as one Arr; the elements below k and the
\* other entries of the bracket stack stay
C3_RightBracketCollects ==
  [][AtBuiltin(B("]")) =>
       LET k == IF lb = <<>> THEN 0 ELSE lb[Len(lb)]
       IN /\ ~aborted'
          /\ k <= Len(stack)
          /\ stack' = Append(SubSeq(stack, 1, k), ArrV(SubSeq(stack, k + 1, Len(stack))))
          /\ lb' = (IF lb = <<>> THEN <<>> ELSE SubSeq(lb, 1, Len(lb) - 1))]_vars_all

\* the run of the source text is over and golfscript has not yet wrapped the stack
RunOver == phase = "run" /\ ctl = <<>> /\ ~aborted

\* C4 as stated: "[;;;1 2 3]" ends with the Arr [1 2 3] collected, and none
\* of the three ";" is a pop of an empty stack: the stable flag is still true
C4_NoUnderflowInBrackets ==
  (Running(B("[;;;1 2 3]")) /\ RunOver) =>
    (stack = <<ArrV(<<IntV(1), IntV(2), IntV(3)>>)>> /\ stable)

\* C4: "[;;;1 2 3]" ends with the Arr [1 2 3] collected; the first ";" takes
\* the input string off the stack and lowers the bracket mark from 1 to 0,
\* the second and the third ";" are pops of an empty stack, and the stable
\* flag is false from the second ";" on
C4_BracketScenario ==
  Running(B("[;;;1 2 3]")) =>
    /\ RunOver => (stack = <<ArrV(<<IntV(1), IntV(2), IntV(3)>>)>> /\ ~stable)
    /\ (Executed(B(";")) /\ ctl[1].pc = 3) =>
         (pops = <<[len |-> 1, lb |-> <<1>>, after |-> <<0>>]>> /\ stable)
    /\ (Executed(B(";")) /\ ctl[1].pc \in {4, 5}) =>
         (pops = <<[len |-> 0, lb |-> <<0>>, after |-> <<0>>]>> /\ ~stable)

\* "[;;;1 2 3]" has run to its end
C4_Witness ==
  /\ Running(B("[;;;1 2 3]"))
  /\ RunOver
  /\ stack = <<ArrV(<<IntV(1), IntV(2), IntV(3)>>)>>
  /\ ~stable

\* C5: no built-in aborts the evaluator when the stack holds fewer operands
\* than it pops
C5_NoAbortOnUnderflow == Underflowed => ~aborted

(***************************************************************************)
(* Properties of underflow.                                                *)
(***************************************************************************)
\* the number of values the built-in sym pops when they are all there
Operands(sym) ==
  CASE sym \in {"~", "backtick", "!", ";", ",", ".", "(", ")", "print", "p",
                "puts", "abs", "rand"} -> 1
    [] sym \in {"+", "\\", "and", "or", "xor"} -> 2
    [] sym \in {"@", "if"} -> 3
    [] OTHER -> 0

\* the symbol the top activation is about to execute as a built-in
CurSymbol == SymbolOf(CurToken.lexeme)

\* the top activation is about to execute a built-in on a stack that holds
\* fewer values than the built-in pops
Short ==
  /\ AtToken
  /\ CurToken.kind = "Symbol"
  /\ CurToken.lexeme \notin DOMAIN vars
  /\ Len(stack) < Operands(CurSymbol)

\* the evaluator after the same token, had an empty Arr stood in the place
\* of every missing operand
Filled ==
  run_step([Machine EXCEPT
              !.stack = [i \in 1..(Operands(CurSymbol) - Len(stack)) |-> EmptyArr] \o @])

\* the step ends as it would have ended on the filled stack
SameAsFilled ==
  /\ stack' = Filled.stack
  /\ output' = Filled.output
  /\ ctl' = Filled.ctl
  /\ aborted' = Filled.aborted

ArrDefault == {"+", "!", ".", "@", ";", "xor", "print", "puts", "rand"}

C7_StableFlag ==
  /\ stable = TRUE
  /\ [][stable' = (stable /\ ~Underflowed')]_vars_all

\* a pop has just found the stack empty
C7_Witness == Underflowed /\ ~stable /\ ~aborted

(***************************************************************************)
(* Properties of the loops.                                                *)
(***************************************************************************)
\* the activations that count their turns in loops
Loops == {"times", "do", "while", "unfold"}

\* no loop has turned more than max_loops times
LoopsWithinCap ==
  \A i \in 1..Len(ctl) : ctl[i].k \in Loops => ctl[i].loops <= max_loops

\* a loop at its head with loops = max_loops returns to its caller
CapExit ==
  (/\ Active \in Loops
   /\ ctl[Len(ctl)].loops = max_loops
   /\ (Active = "times" \/ ctl[Len(ctl)].st = "head"))
  => (~aborted' /\ ctl' = SubSeq(ctl, 1, Len(ctl) - 1))

\* the token loop has gone on to the next token
Advanced == [ctl EXCEPT ![Len(ctl)].pc = @ + 1]

\* the range of an Int and the digits of an Int hold at most max_loops values
ArrayCapped ==
  (\/ AtBuiltin(B(",")) /\ Len(stack) >= 1 /\ Tag(stack[Len(stack)]) = "Int"
   \/ /\ AtBuiltin(B("base")) /\ Len(stack) >= 2
      /\ Tag(stack[Len(stack)]) = "Int" /\ Val(stack[Len(stack)]) # 0
      /\ Tag(stack[Len(stack) - 1]) = "Int")
  => /\ ~aborted'
     /\ ctl' = Advanced
     /\ Len(stack') >= 1
     /\ Tag(stack'[Len(stack')]) = "Arr"
     /\ Len(Val(stack'[Len(stack')])) <= max_loops

\* C8: one invocation of times, do, while, until, unfold, range or base turns
\* at most max_loops times; at max_loops turns it ends without an error and
\* the evaluation goes on behind it
C8_LoopsCapped ==
  /\ []LoopsWithinCap
  /\ [][CapExit]_vars_all
  /\ [][ArrayCapped]_vars_all

\* the do loop of "{1}do", whose test never fails, has returned
C8_Witness ==
  /\ Running(B("{1}do"))
  /\ last.act = "DoStep"
  /\ Len(ctl) = 1
  /\ ~aborted

(***************************************************************************)
(* Properties of variables.                                                *)
(***************************************************************************)
\* the step executes the value v and nothing else: a Blk is run, any other
\* value is pushed
Executes(v) ==
  /\ ~aborted'
  /\ vars' = vars /\ lb' = lb /\ output' = output /\ stable' = stable
  /\ IF Tag(v) = "Blk"
     THEN stack' = stack /\ ctl' = run([ctl |-> Advanced], Val(v)).ctl
     ELSE stack' = Append(stack, v) /\ ctl' = Advanced

\* the lexeme of the token the top activation is about to execute is bound
AtBound == AtToken /\ CurToken.lexeme \in DOMAIN vars

\* C9 as stated: a token of any kind whose lexeme is bound executes the
\* bound value and none of the built-in behaviour
C9_BoundLexemeOverrides ==
  [][AtBound => Executes(vars[CurToken.lexeme])]_vars_all

\* C9: a token other than ":" whose lexeme is bound executes the bound value
\* and none of the built-in behaviour; a ":" token is an assignment even
\* when ":" is bound: it pushes nothing and binds the next lexeme to the top
C9_BoundTokenOverrides ==
  [][AtBound =>
       IF IsColon(CurToken)
       THEN /\ stack' = stack
            /\ (stack # <<>> /\ ctl[Len(ctl)].pc < Len(ctl[Len(ctl)].toks)) =>
                 /\ ctl[Len(ctl)].toks[ctl[Len(ctl)].pc + 1].lexeme \in DOMAIN vars'
                 /\ vars'[ctl[Len(ctl)].toks[ctl[Len(ctl)].pc + 1].lexeme]
                      = stack[Len(stack)]
       ELSE Executes(vars[CurToken.lexeme])]_vars_all

\* "+" bound to 5 has been executed on 1 2
C9_Witness ==
  /\ Running(B("5:+;1 2+"))
  /\ Executed(B("+"))
  /\ stack = <<StrV(<<>>), IntV(1), IntV(2), IntV(5)>>

\* C10: ":" on a stack that is not empty consumes the next token without
\* executing it and binds its lexeme to the top of the stack, in the place
\* of any earlier binding; the stack, the bracket stack, the output, the RNG
\* state and the stable flag stay
C10_AssignFrame ==
  [][(/\ AtToken /\ IsColon(CurToken)
      /\ stack # <<>>
      /\ ctl[Len(ctl)].pc < Len(ctl[Len(ctl)].toks))
     => /\ vars' = (ctl[Len(ctl)].toks[ctl[Len(ctl)].pc + 1].lexeme
                      :> stack[Len(stack)]) @@ vars
        /\ ctl' = [ctl EXCEPT ![Len(ctl)].pc = @ + 2]
        /\ stack' = stack
        /\ lb' = lb
        /\ output' = output
        /\ rng_state' = rng_state
        /\ stable' = stable
        /\ ~aborted']_vars_all

\* the second ":a" of "1:a;2:a" has bound a again
C10_Witness ==
  /\ Running(B("1:a;2:a"))
  /\ last.act = "Assign"
  /\ vars[B("a")] = IntV(2)
  /\ stack = <<StrV(<<>>), IntV(2)>>

\* C11: ":" on the empty stack consumes the next token without executing it
\* and does nothing else: no binding is made or changed, and the stack, the
\* bracket stack, the output and the stable flag stay
C11_AssignOnEmptyStack ==
  [][(/\ AtToken /\ IsColon(CurToken)
      /\ stack = <<>>
      /\ ctl[Len(ctl)].pc < Len(ctl[Len(ctl)].toks))
     => /\ vars' = vars
        /\ ctl' = [ctl EXCEPT ![Len(ctl)].pc = @ + 2]
        /\ stack' = <<>>
        /\ lb' = lb
        /\ output' = output
        /\ stable' = stable
        /\ pops' = <<>>
        /\ ~aborted']_vars_all

\* the ":a" of "1:a;;:a a" has been executed on the empty stack, a bound to 1
C11_Witness ==
  /\ Running(B("1:a;;:a a"))
  /\ last.act = "Assign"
  /\ stack = <<>>
  /\ vars = (B("a") :> IntV(1))
  /\ stable

(***************************************************************************)
(* Properties of the output.                                               *)
(***************************************************************************)
\* C12: golfscript returns the text the program printed followed by the
\* rendering by puts (to_gs and a newline) of the one Arr that wraps the
\* final stack; the returned text ends with that newline
C12_ReturnsPrintedThenPuts ==
  /\ [][last.act = "Wrap" =>
          output' = output \o from_utf8_lossy(to_gs(stack[1]), 1, <<>>) \o <<10>>]_vars_all
  /\ [][(phase = "puts" /\ last.act # "Wrap") => output' = output]_vars_all
  /\ [](phase = "done" => (output # <<>> /\ output[Len(output)] = 10))

\* the tokenizer leaves a remainder on code
Unparsed(code) == parse_code(code).rest # <<>>

\* nothing of a source text with a remainder is executed
NoRunOfUnparsedSource ==
  (scen > 0 /\ Unparsed(Scenarios[scen]) /\ phase = "run") =>
    /\ ctl = <<>>
    /\ stack = <<StrV(<<>>)>>
    /\ vars = <<>>
    /\ lb = <<>>
    /\ rng_state = U64(RngSeed)
    /\ output = <<>>

\* "~" on a Str or a Blk with a remainder takes the value off the stack and
\* the run of its text does nothing
NoRunOfUnparsedBody ==
  (/\ AtBuiltin(B("~"))
   /\ stack # <<>>
   /\ Tag(stack[Len(stack)]) \in {"Str", "Blk"}
   /\ Unparsed(Val(stack[Len(stack)])))
  => /\ ctl' = Advanced
     /\ stack' = SubSeq(stack, 1, Len(stack) - 1)
     /\ vars' = vars
     /\ lb' = pops'[1].after
     /\ Len(pops') = 1
     /\ rng_state' = rng_state
     /\ output' = output
     /\ ~aborted'

\* C13: when the tokenizer leaves a remainder on a source text or on the
\* text of a block or string, none of its tokens is executed and the stack,
\* the variables, the bracket stack, the RNG state and the output stay
C13_RemainderRunsNothing ==
  /\ []NoRunOfUnparsedSource
  /\ [][NoRunOfUnparsedBody]_vars_all

\* "~" has been executed on the Blk "}" made by "1'}'{}+~"
C13_Witness ==
  /\ Running(B("1'}'{}+~"))
  /\ Executed(B("~"))
  /\ stack = <<StrV(<<>>), IntV(1)>>
  /\ Len(ctl) = 1

\* the output of the next state begins with the output of this state
OutputGrows ==
  /\ Len(output') >= Len(output)
  /\ SubSeq(output', 1, Len(output)) = output

\* the text the built-in print, p or puts emits for the top of the stack
Emitted(sym) ==
  LET text == IF stack = <<>> THEN <<>>
              ELSE IF sym = "p" THEN inspect(stack[Len(stack)])
              ELSE to_gs(stack[Len(stack)])
  IN from_utf8_lossy(text, 1, <<>>) \o (IF sym = "print" THEN <<>> ELSE <<10>>)

\* print, p and puts put their text at the end of the output
EmitsAtEnd ==
  \A sym \in {"print", "p", "puts"} :
    AtBuiltin(B(sym)) => output' = output \o Emitted(sym)

\* C14: the output only grows at its end: the output of every later state
\* begins with the output of every earlier state, and the texts of print, p
\* and puts stand in it in the order in which the tokens were executed
C14_OutputAppendOnly ==
  /\ [][OutputGrows]_vars_all
  /\ [][EmitsAtEnd]_vars_all

\* "1print 2p 3puts" has printed 1, then 2 and a newline, then 3 and a newline
C14_Witness ==
  /\ Running(B("1print 2p 3puts"))
  /\ Executed(B("puts"))
  /\ phase = "run"
  /\ output = B("12") \o <<10>> \o B("3") \o <<10>>

(***************************************************************************)
(* Properties of the operators.                                            *)
(***************************************************************************)
\* the built-in "," is about to be executed on the Int n >= 0
AtRange(n) ==
  /\ AtBuiltin(B(","))
  /\ stack # <<>>
  /\ stack[Len(stack)] = IntV(n)
  /\ n >= 0

\* the step puts the Arr [0, 1, ..., count - 1] in the place of the top
RangeOf(count) ==
  /\ ~aborted'
  /\ stack' = Append(SubSeq(stack, 1, Len(stack) - 1),
                     ArrV([k \in 1..count |-> IntV(k - 1)]))

\* the Int on top of the stack ("," is about to be executed on it)
TopInt == Val(stack[Len(stack)])

\* C15 as stated: "," on an Int n >= 0 puts the Arr [0, 1, ..., n-1] of
\* exactly n elements in the place of n
C15_RangeOfN ==
  [][(AtBuiltin(B(",")) /\ stack # <<>> /\ AtRange(TopInt)) => RangeOf(TopInt)]_vars_all

\* C15: "," on an Int n with 0 <= n <= max_loops puts the Arr [0, 1, ...,
\* n-1] of exactly n elements in the place of n; on n > max_loops it puts the
\* Arr [0, 1, ..., max_loops-1] of max_loops elements (2000 in golfscript)
C15_RangeUpToCap ==
  [][(AtBuiltin(B(",")) /\ stack # <<>> /\ AtRange(TopInt)) =>
       RangeOf(IF TopInt <= max_loops THEN TopInt ELSE max_loops)]_vars_all

\* "," has been executed on 3000 and has left 2000 elements
C15_Witness ==
  /\ Running(B("3000,;"))
  /\ Executed(B(","))
  /\ Len(stack) = 2
  /\ Len(Val(stack[2])) = SandboxMaxLoops
  /\ Val(stack[2])[SandboxMaxLoops] = IntV(SandboxMaxLoops - 1)

\* C16: map does not abort and pushes one result that holds, for every
\* element in order, the values the block left above the height the stack
\* had before the element was pushed
C16_MapCollects ==
  [][Active = "map" =>
       LET f == ctl[Len(ctl)]
       IN /\ ~aborted'
          /\ f.st = "drain" =>
               /\ f.lbl <= Len(stack)
               /\ stack' = SubSeq(stack, 1, f.lbl)
               /\ ctl'[Len(ctl)].r = f.r \o SubSeq(stack, f.lbl + 1, Len(stack))
          /\ (f.st = "next" /\ f.vs = <<>>) =>
               /\ ctl' = SubSeq(ctl, 1, Len(ctl) - 1)
               /\ stack' = Append(stack, IF f.wrap = "Str" THEN StrV(flatten(f.r))
                                         ELSE ArrV(f.r))]_vars_all

\* the Fibonacci numbers from 1 1 up to 89
Fib89 ==
  <<IntV(1), IntV(1), IntV(2), IntV(3), IntV(5), IntV(8), IntV(13), IntV(21),
    IntV(34), IntV(55), IntV(89)>>

\* C17 as stated: "0 1{100<}{.@+}/" collects the Fibonacci numbers up to 100
\* into one Arr that begins 0 1 1 2 3 5 8 13 21 34 55 89
C17_FibFromZero ==
  (Running(B("0 1{100<}{.@+}/")) /\ RunOver) =>
    /\ Len(stack) >= 1
    /\ Tag(stack[Len(stack)]) = "Arr"
    /\ Val(stack[Len(stack)]) = <<IntV(0)>> \o Fib89

\* C17: "0 1{100<}{.@+}/" leaves 89 and, on top of it, the Arr of the
\* Fibonacci numbers 1 1 2 3 5 8 13 21 34 55 89: the Arr holds the top of the
\* stack of every turn whose test held, so it begins with 1, not with 0
C17_FibFromOne ==
  (Running(B("0 1{100<}{.@+}/")) /\ RunOver) =>
    stack = <<StrV(<<>>), IntV(89), ArrV(Fib89)>>

\* "0 1{100<}{.@+}/" has run to its end
C17_Witness ==
  /\ Running(B("0 1{100<}{.@+}/"))
  /\ RunOver
  /\ last.act = "Return"
  /\ stack[Len(stack)] = ArrV(Fib89)
\* "?" is about to be executed on two Ints: the base below the exponent
AtPower ==
  /\ AtBuiltin(B("?"))
  /\ Len(stack) >= 2
  /\ Tag(stack[Len(stack)]) = "Int"
  /\ Tag(stack[Len(stack) - 1]) = "Int"

PowerBase == stack[Len(stack) - 1]
PowerExp == stack[Len(stack)]

\* the step puts the value v in the place of the two operands
Replaced2(v) ==
  /\ ~aborted'
  /\ stack' = Append(SubSeq(stack, 1, Len(stack) - 2), v)

\* the absolute value and the parity of an Int value that fits i32
AbsV(a) == IF Val(a) < 0 THEN IntV(-Val(a)) ELSE a
IsOdd(e) == IF IsHuge(e) THEN e[2].digits[Len(e[2].digits)] % 2 = 1 ELSE Val(e) % 2 = 1

\* a^e for a base that fits i32 and an exponent that fits u32
Power(a, e) ==
  CASE Val(a) = 0 -> IF ~IsHuge(e) /\ Val(e) = 0 THEN IntV(1) ELSE IntV(0)
    [] Val(a) = 1 -> IntV(1)
    [] Val(a) = -1 -> IF IsOdd(e) THEN IntV(-1) ELSE IntV(1)
    [] Val(a) > 1 -> pow(Val(a), Val(e))
    [] Val(a) < -1 ->
         LET r == pow(-Val(a), Val(e))
         IN IF ~IsOdd(e) THEN r
            ELSE IF IsHuge(r) THEN <<"Int", [r[2] EXCEPT !.neg = TRUE], "huge">>
            ELSE IntV(-Val(r))

\* log10(|a|) * e < 100; the logarithm of 0 counts as below every bound
AbsLogBelow(a, e) == Val(a) = 0 \/ LogBelow(AbsV(a), e)

\* C18: "?" on a base a and an exponent e, both Int, a within i32, puts in
\* their place 0 when e does not fit u32, else a when log10(|a|) * e >= 100,
\* else exactly a^e; this holds for negative a, for a = 0 and for e = 0
C18_PowerGuard ==
  [][(AtPower /\ ~IsHuge(PowerBase)) =>
       Replaced2(IF ~FitsU32(PowerExp) THEN IntV(0)
                 ELSE IF AbsLogBelow(PowerBase, PowerExp)
                 THEN Power(PowerBase, PowerExp)
                 ELSE PowerBase)]_vars_all

\* C19: "?" on two Ints, however large, does not abort and puts exactly one
\* Int in the place of the two operands
C19_PowerNeverFaults ==
  [][AtPower =>
       /\ ~aborted'
       /\ Len(stack') = Len(stack) - 1
       /\ SubSeq(stack', 1, Len(stack) - 2) = SubSeq(stack, 1, Len(stack) - 2)
       /\ Tag(stack'[Len(stack')]) = "Int"]_vars_all
\* the token lexeme is about to be executed on two Ints
AtIntPair(lexeme) ==
  /\ AtBuiltin(lexeme)
  /\ Len(stack) >= 2
  /\ Tag(stack[Len(stack)]) = "Int" /\ ~IsHuge(stack[Len(stack)])
  /\ Tag(stack[Len(stack) - 1]) = "Int" /\ ~IsHuge(stack[Len(stack) - 1])

Dividend == Val(stack[Len(stack) - 1])
Divisor == Val(stack[Len(stack)])

\* r is a remainder of the floor division by b: zero or of the sign of b,
\* and smaller than b in magnitude
FloorRemainder(r, b) == (b > 0 /\ 0 <= r /\ r < b) \/ (b < 0 /\ b < r /\ r <= 0)

\* the step puts one Int in the place of the two operands
PushedInt ==
  /\ ~aborted'
  /\ Len(stack') = Len(stack) - 1
  /\ SubSeq(stack', 1, Len(stack) - 2) = SubSeq(stack, 1, Len(stack) - 2)
  /\ Tag(stack'[Len(stack')]) = "Int"

Result == Val(stack'[Len(stack')])

\* C20: "/" and "%" on two Ints do not abort and put one Int in the place
\* of the operands: 0 when the divisor is 0, else the floor quotient q (the
\* remainder a - b * q is a floor remainder) for "/" and the floor modulus r
\* (a floor remainder with a - r divisible by b) for "%"
C20_DivModByZero ==
  /\ [][AtIntPair(B("/")) =>
          /\ PushedInt
          /\ IF Divisor = 0 THEN Result = 0
             ELSE FloorRemainder(Dividend - Divisor * Result, Divisor)]_vars_all
  /\ [][AtIntPair(B("%")) =>
          /\ PushedInt
          /\ IF Divisor = 0 THEN Result = 0
             ELSE /\ FloorRemainder(Result, Divisor)
                  /\ (Dividend - Result) % (IF Divisor < 0 THEN -Divisor ELSE Divisor) = 0]_vars_all

\* "7 0/7 0%" has executed both operators on a zero divisor and has left 0 0
C20_Witness ==
  /\ Running(B("7 0/7 0%"))
  /\ Executed(B("%"))
  /\ ~aborted
  /\ stack = <<StrV(<<>>), IntV(0), IntV(0)>>
\* the loop activation on top of the call stack, and the call stack without it
Loop == ctl[Len(ctl)]
Callers == SubSeq(ctl, 1, Len(ctl) - 1)

\* the step executes v inside the loop, which goes on at the position st with
\* one more turn counted: a Blk is run, any other value is pushed
LoopExecutes(v, st) ==
  LET f == [Loop EXCEPT !.loops = @ + 1, !.st = st]
  IN /\ ~aborted'
     /\ IF Tag(v) = "Blk"
        THEN stack' = stack /\ ctl' = run([ctl |-> Append(Callers, f)], Val(v)).ctl
        ELSE stack' = Append(stack, v) /\ ctl' = Append(Callers, f)

\* the step pops the top of the stack, if there is one
PopsTop == stack' = SubSeq(stack, 1, Len(stack) - 1)

\* C21: "do" pops one value a (nothing happens on an empty stack); the loop
\* then executes a and pops the top of the stack, and goes round again if
\* and only if a value was popped and is truthy, as long as fewer than
\* max_loops turns have run; the first turn always runs (max_loops > 0)
C21_DoLoop ==
  /\ [][AtBuiltin(B("do")) =>
          IF stack = <<>> THEN stack' = stack /\ ctl' = Advanced
          ELSE /\ PopsTop
               /\ Len(ctl') = Len(ctl) + 1
               /\ ctl'[Len(ctl')].k = "do" /\ ctl'[Len(ctl')].st = "head"
               /\ ctl'[Len(ctl')].a = stack[Len(stack)]
               /\ ctl'[Len(ctl')].loops = 0 /\ max_loops > 0]_vars_all
  /\ [][(Active = "do" /\ Loop.st = "head") =>
          IF Loop.loops < max_loops THEN LoopExecutes(Loop.a, "test")
          ELSE ctl' = Callers /\ stack' = stack]_vars_all
  /\ [][(Active = "do" /\ Loop.st = "test") =>
          /\ PopsTop
          /\ IF stack # <<>> /\ Truthy(stack[Len(stack)])
             THEN ctl' = Append(Callers, [Loop EXCEPT !.st = "head"])
             ELSE ctl' = Callers]_vars_all

\* "0 1 1{}do" has gone round three times and has left on the falsey 0
C21_Witness ==
  /\ Running(B("0 1 1{}do"))
  /\ last.act = "DoStep"
  /\ Active = "run"
  /\ stack = <<StrV(<<>>)>>
  /\ pops # <<>>
\* "while" (which = TRUE) or "until" (which = FALSE) is about to be executed
AtWhile(which) == AtBuiltin(IF which THEN B("while") ELSE B("until"))

\* C22: "while" and "until" pop the body and then the condition; each turn
\* executes the condition and pops its result; the body is executed and the
\* loop goes round exactly when a result was popped and is truthy for
\* "while", falsey for "until"; otherwise the loop is left and the body is
\* not executed again (the turns are counted against max_loops)
C22_WhileLoop ==
  /\ [][\A which \in BOOLEAN :
          (AtWhile(which) /\ Len(stack) >= 2) =>
            /\ stack' = SubSeq(stack, 1, Len(stack) - 2)
            /\ Len(ctl') = Len(ctl) + 1
            /\ ctl'[Len(ctl')].k = "while" /\ ctl'[Len(ctl')].st = "head"
            /\ ctl'[Len(ctl')].which = which
            /\ ctl'[Len(ctl')].b = stack[Len(stack)]
            /\ ctl'[Len(ctl')].a = stack[Len(stack) - 1]]_vars_all
  /\ [][(Active = "while" /\ Loop.st = "head") =>
          IF Loop.loops < max_loops THEN LoopExecutes(Loop.a, "test")
          ELSE ctl' = Callers /\ stack' = stack]_vars_all
  /\ [][(Active = "while" /\ Loop.st = "test") =>
          LET below == SubSeq(stack, 1, Len(stack) - 1)
              again == Append(Callers, [Loop EXCEPT !.st = "head"])
          IN IF stack # <<>> /\ (Truthy(stack[Len(stack)]) = Loop.which)
             THEN IF Tag(Loop.b) = "Blk"
                  THEN stack' = below /\ ctl' = run([ctl |-> again], Val(Loop.b)).ctl
                  ELSE stack' = Append(below, Loop.b) /\ ctl' = again
             ELSE stack' = below /\ ctl' = Callers]_vars_all
\* the lower and the upper of the two operands on top of the stack
Lower == stack[Len(stack) - 1]
Upper == stack[Len(stack)]

\* the step takes the two operands off the stack and executes v: a Blk is
\* run, any other value is pushed; nothing else is pushed or run
Selects(v) ==
  /\ ~aborted'
  /\ IF Tag(v) = "Blk"
     THEN /\ stack' = SubSeq(stack, 1, Len(stack) - 2)
          /\ ctl' = run([ctl |-> Advanced], Val(v)).ctl
     ELSE /\ stack' = Append(SubSeq(stack, 1, Len(stack) - 2), v)
          /\ ctl' = Advanced

\* C23: on operands a (lower) and b (top), "and" selects b when a is truthy
\* and a otherwise, "or" selects a when a is truthy and b otherwise; both
\* operands are removed, the selected one is run if it is a Blk and pushed
\* otherwise, the other one is neither run nor pushed
C23_AndOrSelect ==
  /\ [][(AtBuiltin(B("and")) /\ Len(stack) >= 2) =>
          Selects(IF Truthy(Lower) THEN Upper ELSE Lower)]_vars_all
  /\ [][(AtBuiltin(B("or")) /\ Len(stack) >= 2) =>
          Selects(IF Truthy(Lower) THEN Lower ELSE Upper)]_vars_all

\* "1{5}and 0{6}and{7}0or{}{8}or" has run {5}, pushed 0, run {7} and run {8}
C23_Witness ==
  /\ Running(B("1{5}and 0{6}and{7}0or{}{8}or"))
  /\ RunOver
  /\ stack = <<StrV(<<>>), IntV(5), IntV(0), IntV(7), IntV(8)>>
\* "rand" is about to be executed with a positive Int on top of the stack
AtRandOf ==
  /\ AtBuiltin(B("rand"))
  /\ stack # <<>>
  /\ Tag(stack[Len(stack)]) = "Int"
  /\ Val(stack[Len(stack)]) > 0

\* the step puts the Int v in the place of the top of the stack (on an empty
\* stack it pushes v)
ReplacedTop(v) ==
  /\ ~aborted'
  /\ stack' = Append(SubSeq(stack, 1, Len(stack) - 1), IntV(v))

\* C24: "rand" on a positive Int n pops n, sets the RNG state to
\* (state * 1664525 + 1013904223) mod 2^64 and pushes the new state mod n, a
\* value of 0..n-1; in every other case "rand" pushes 0 and leaves the state;
\* no other step changes the state; the states start from the seed 123456789,
\* so that "10rand 10rand 1000000rand 2147483647rand" leaves 8, 5, 44130,
\* 1523837482 and the state 13938708498217135897 (given by its eight bytes,
\* least significant first)
C24_RandLcg ==
  /\ [][AtRandOf =>
          /\ rng_state' = MulAdd64(rng_state, 1664525, 1013904223)
          /\ ReplacedTop(Rem64(rng_state', TopInt))
          /\ Val(stack'[Len(stack')]) \in 0..(TopInt - 1)]_vars_all
  /\ [][(AtBuiltin(B("rand")) /\ ~AtRandOf) =>
          rng_state' = rng_state /\ ReplacedTop(0)]_vars_all
  /\ [][~AtBuiltin(B("rand")) => rng_state' = rng_state]_vars_all
  /\ [][last.act = "Init" => rng_state = U64(RngSeed)]_vars_all
  /\ [][(RunOver /\ Running(B("10rand 10rand 1000000rand 2147483647rand"))) =>
          /\ stack = <<StrV(<<>>), IntV(8), IntV(5), IntV(44130), IntV(1523837482)>>
          /\ rng_state = <<25, 111, 243, 87, 135, 61, 112, 193>>]_vars_all

\* "rand" has been executed four times on positive Ints
C24_Witness ==
  /\ Len(stack) = 5
  /\ rng_state = <<25, 111, 243, 87, 135, 61, 112, 193>>
  /\ Executed(B("rand"))
  /\ Running(B("10rand 10rand 1000000rand 2147483647rand"))
\* a step of the run of a given source text (Feed is the choice of the text)
RunStep ==
  \/ StepToken \/ Assign \/ Return
  \/ MapStep \/ FoldStep \/ EachStep \/ TimesStep \/ DoStep \/ WhileStep \/ UnfoldStep
  \/ Wrap \/ Done

\* the evaluator after the step that the state of the run calls for
Outcome ==
  CASE AtToken /\ ~IsColon(CurToken) -> run_step(Machine)
    [] AtToken /\ IsColon(CurToken) -> assign_step(Machine)
    [] Active = "run" /\ ~AtToken -> DropTop(Machine)
    [] Active = "map" -> map_step(Machine)
    [] Active = "fold" -> fold_step(Machine)
    [] Active = "each" -> each_step(Machine)
    [] Active = "times" -> times_step(Machine)
    [] Active = "do" -> do_step(Machine)
    [] Active = "while" -> while_step(Machine)
    [] Active = "unfold" -> unfold_step(Machine)
    [] Active = "" /\ phase = "run" ->
         [Machine EXCEPT !.stack = <<ArrV(stack)>>, !.ctl = run([ctl |-> <<>>], B("puts")).ctl]
    [] Active = "" /\ phase # "run" -> Machine

Below == SubSeq(stack, 1, Len(stack) - 1)

\* "$" is about to be executed with an Int n on top, 0 <= n < d, d the depth
\* of the stack below n
AtCopy ==
  /\ AtBuiltin(B("$"))
  /\ stack # <<>>
  /\ Tag(stack[Len(stack)]) = "Int"
  /\ TopInt >= 0 /\ TopInt < Len(Below)

\* C26: "$" on an Int n with 0 <= n < d, d the depth of the stack after n is
\* removed, pushes a copy of the element n positions below the top (0 is the
\* top) and changes no other element
C26_DollarCopies ==
  [][AtCopy =>
       /\ ~aborted'
       /\ stack' = Append(Below, Below[Len(Below) - TopInt])]_vars_all

\* "5 6 7 0$4$1$" has copied the top, the bottom and the element below the top
C26_Witness ==
  /\ Executed(B("$"))
  /\ stack = <<StrV(<<>>), IntV(5), IntV(6), IntV(7), IntV(7), StrV(<<>>), IntV(7)>>
  /\ Running(B("5 6 7 0$4$1$"))
\* C27: on a stack that ends with a b c (c on top), "@" leaves b c a in
\* their place (a on top): the depth and every element below are unchanged
C27_RotateThree ==
  [][(AtBuiltin(B("@")) /\ Len(stack) >= 3) =>
       /\ ~aborted'
       /\ Len(stack') = Len(stack)
       /\ stack' = SubSeq(stack, 1, Len(stack) - 3)
                     \o <<stack[Len(stack) - 1], stack[Len(stack)], stack[Len(stack) - 2]>>]_vars_all

\* "1 2 3@" has left 2 3 1 above the input
C27_Witness ==
  /\ Executed(B("@"))
  /\ stack = <<StrV(<<>>), IntV(2), IntV(3), IntV(1)>>
  /\ Running(B("1 2 3@"))
\* C28: on a stack with v on top, "." leaves the stack as it was with one
\* more v on top; and ";" right after such a "." leaves the stack with the
\* depth it had before the "." (read from the pop of "."), which by the
\* first part is the stack as it was before the two tokens
C28_DupThenDrop ==
  /\ [][(AtBuiltin(B(".")) /\ stack # <<>>) =>
          /\ ~aborted'
          /\ stack' = Append(stack, stack[Len(stack)])]_vars_all
  /\ [][(Executed(B(".")) /\ ~Underflowed /\ AtBuiltin(B(";"))) =>
          /\ ~aborted'
          /\ Len(stack') = pops[1].len
          /\ stack' = SubSeq(stack, 1, pops[1].len)
          /\ stack[Len(stack)] = stack'[Len(stack')]]_vars_all

\* "5.;" has duplicated 5 and dropped the copy
C28_Witness ==
  /\ Executed(B(";"))
  /\ stack = <<StrV(<<>>), IntV(5)>>
  /\ ctl[1].pc = 4
  /\ Running(B("5.;'ab'.;{x}.;[1 2].;"))
\* the symbol "\"
Backslash == <<92>>

\* C29: on a stack of at least two elements "\" exchanges the top two and
\* leaves the rest; two "\" in a row leave the stack as it was: "1 2" is
\* 2 1 after the first and 1 2 again after the second
C29_SwapTwice ==
  /\ [][(AtBuiltin(Backslash) /\ Len(stack) >= 2) =>
          /\ ~aborted'
          /\ stack' = SubSeq(stack, 1, Len(stack) - 2)
                        \o <<stack[Len(stack)], stack[Len(stack) - 1]>>]_vars_all
  /\ [][(Executed(Backslash) /\ Running(B("1 2") \o <<92, 92>>)) =>
          stack = IF ctl[1].pc = 5 THEN <<StrV(<<>>), IntV(2), IntV(1)>>
                  ELSE <<StrV(<<>>), IntV(1), IntV(2)>>]_vars_all

\* the second "\" of "1 2" followed by two of them has been executed
C29_Witness ==
  /\ Executed(Backslash)
  /\ ctl[1].pc = 6
  /\ stack = <<StrV(<<>>), IntV(1), IntV(2)>>
  /\ Running(B("1 2") \o <<92, 92>>)
\* the top of the stack and, for a sequence, its elements as values: the
\* elements of an Arr, the bytes of a Str or Blk as Ints
TopValue == stack[Len(stack)]
TopElems == IF Tag(TopValue) = "Arr" THEN Val(TopValue)
            ELSE [i \in 1..Len(Val(TopValue)) |-> IntV(Val(TopValue)[i])]

\* the step puts the sequence rest, of the kind of the top, and then the
\* value elem in the place of the top
Uncons(rest, elem) ==
  /\ ~aborted'
  /\ Len(stack') = Len(stack) + 1
  /\ stack' = Below \o <<<<Tag(TopValue), rest>>, elem>>
  /\ Len(rest) = Len(Val(TopValue)) - 1

\* C30: "(" on an Int n pushes n - 1 in its place and ")" pushes n + 1; on a
\* non-empty sequence of length k, "(" puts in its place the sequence without
\* its first element and then that element, ")" the sequence without its
\* last element and then that element: the depth grows by one and the rest
\* has length k - 1
C30_ParenSteps ==
  /\ [][(AtBuiltin(B("(")) /\ stack # <<>>) =>
          IF Tag(TopValue) = "Int" THEN ReplacedTop(TopInt - 1)
          ELSE Val(TopValue) # <<>> =>
                 Uncons(SubSeq(Val(TopValue), 2, Len(Val(TopValue))), TopElems[1])]_vars_all
  /\ [][(AtBuiltin(B(")")) /\ stack # <<>>) =>
          IF Tag(TopValue) = "Int" THEN ReplacedTop(TopInt + 1)
          ELSE Val(TopValue) # <<>> =>
                 Uncons(SubSeq(Val(TopValue), 1, Len(Val(TopValue)) - 1),
                        TopElems[Len(TopElems)])]_vars_all

\* "[1 2 3]([1 2 3])" has split off the first and then the last element
C30_Witness ==
  /\ Executed(B(")"))
  /\ stack = <<StrV(<<>>), ArrV(<<IntV(2), IntV(3)>>), IntV(1),
               ArrV(<<IntV(1), IntV(2)>>), IntV(3)>>
  /\ Running(B("[1 2 3]([1 2 3])"))
\* "base" is about to be executed on an Int n and a base b > 1 on top of it
AtDigits ==
  /\ AtBuiltin(B("base"))
  /\ Len(stack) >= 2
  /\ Tag(Upper) = "Int" /\ ~IsHuge(Upper) /\ Val(Upper) > 1
  /\ Tag(Lower) = "Int"

\* ds are the digits of |n| in base b, most significant first: digits of
\* 0..b-1 without a leading zero whose place values add up to |n| (for an n
\* beyond i32, in base 10: the decimal text of |n|)
DigitsOf(ds, b, n) ==
  /\ \A j \in 1..Len(ds) : Tag(ds[j]) = "Int" /\ Val(ds[j]) \in 0..(b - 1)
  /\ ds = <<>> \/ Val(ds[1]) # 0
  /\ IF IsHuge(n) THEN b = 10 /\ [j \in 1..Len(ds) |-> 48 + Val(ds[j])] = Val(n).digits
     ELSE DigitSum(ds, b, 0) = (IF Val(n) < 0 THEN -Val(n) ELSE Val(n))

\* the step puts the digits of |n| in base b in the place of n and b
PushesDigits ==
  /\ ~aborted'
  /\ Len(stack') = Len(stack) - 1
  /\ SubSeq(stack', 1, Len(stack) - 2) = SubSeq(stack, 1, Len(stack) - 2)
  /\ Tag(stack'[Len(stack')]) = "Arr"
  /\ DigitsOf(Val(stack'[Len(stack')]), Val(Upper), Lower)

\* |n| has at most max_loops digits in base b (every n within i32 has)
WithinDigitCap == IsHuge(Lower) => Len(Val(Lower).digits) <= max_loops

\* 10^2000, the smallest Int of 2001 decimal digits
TenToCap == Literal(<<49>> \o [j \in 1..SandboxMaxLoops |-> 48])

\* what "base" twice with the same b leaves of 255, -255, 0 (bases 2, 16, 7)
\* and of 2147483647 and 12345678901 (base 10): the absolute values
RoundTrips ==
  /\ (RunOver /\ Running(B("255 2base 2base -255 16base 16base 0 7base 7base"))) =>
       stack = <<StrV(<<>>), IntV(255), IntV(255), IntV(0)>>
  /\ (RunOver /\ Running(B("2147483647 10base 10base 12345678901 10base 10base"))) =>
       stack = <<StrV(<<>>), IntV(2147483647), Literal(B("12345678901"))>>

\* C31 as stated: for every Int n and every Int b > 1, "base" with b puts
\* the digits of |n| in the place of n, and "base" with b on these digits
\* puts |n| in their place
C31_BaseRoundTrip ==
  /\ [][AtDigits => PushesDigits]_vars_all
  /\ [][RoundTrips]_vars_all
  /\ [][(RunOver /\ Len(stack) = 2 /\ Tag(stack[2]) = "Int" /\ max_loops = SandboxMaxLoops
          /\ Running(<<49>> \o [j \in 1..SandboxMaxLoops |-> 48] \o B(" 10base 10base"))) =>
          stack[2] = TenToCap]_vars_all

\* C31: for every Int n and every Int b > 1 such that |n| has at most
\* max_loops digits in base b, "base" with b puts the digits of |n| in the
\* place of n, and "base" with b on these digits puts |n| in their place
C31_BaseRoundTripCapped ==
  /\ [][(AtDigits /\ WithinDigitCap) => PushesDigits]_vars_all
  /\ [][RoundTrips]_vars_all

\* "12345678901 10base 10base" has been through its digits and back
C31_Witness ==
  /\ Executed(B("base"))
  /\ Len(stack) = 3
  /\ stack[3] = Literal(B("12345678901"))
  /\ Running(B("2147483647 10base 10base 12345678901 10base 10base"))
\* C32: in every reachable state the entries of the bracket stack lb are
\* non-decreasing from the oldest to the newest
C32_LbSorted == \A i \in 1..Len(lb) : \A j \in i..Len(lb) : lb[i] <= lb[j]
\* the evaluator after the step that the evaluator m calls for (m is in an
\* activation)
Turn(m) ==
  LET f == m.ctl[Len(m.ctl)]
  IN CASE f.k = "run" /\ f.pc <= Len(f.toks) /\ ~IsColon(f.toks[f.pc]) -> run_step(m)
       [] f.k = "run" /\ f.pc <= Len(f.toks) /\ IsColon(f.toks[f.pc]) -> assign_step(m)
       [] f.k = "run" /\ f.pc > Len(f.toks) -> DropTop(m)
       [] f.k = "map" -> map_step(m)
       [] f.k = "fold" -> fold_step(m)
       [] f.k = "each" -> each_step(m)
       [] f.k = "times" -> times_step(m)
       [] f.k = "do" -> do_step(m)
       [] f.k = "while" -> while_step(m)
       [] f.k = "unfold" -> unfold_step(m)

\* what a step of the evaluator depends on, besides the activation on top
Data(m) == <<m.stack, m.vars, m.lb, m.rng_state, m.stable, m.output, m.max_loops>>

\* the evaluator n is where the evaluator m was, one or more calls deeper:
\* the same values, the same position in the same code on top of the call
\* stack, and the callers of m still waiting below
ReEntered(m, n) ==
  /\ ~n.aborted
  /\ Len(n.ctl) > Len(m.ctl)
  /\ Data(n) = Data(m)
  /\ n.ctl[Len(n.ctl)] = m.ctl[Len(m.ctl)]
  /\ SubSeq(n.ctl, 1, Len(m.ctl) - 1) = SubSeq(m.ctl, 1, Len(m.ctl) - 1)

\* the evaluator is back where it is now, deeper in the call stack, after one
\* step or after two steps none of which returns to a caller: since a step
\* depends on the values and the top activation only, the same steps follow
\* again and again and the call stack grows without end
Recurs ==
  /\ Active # ""
  /\ LET m1 == Turn(Machine)
     IN \/ ReEntered(Machine, m1)
        \/ /\ ~m1.aborted /\ Len(m1.ctl) >= Len(ctl)
           /\ ReEntered(Machine, Turn(m1))

\* C33: with max_loops = 2000 every evaluation finishes; a run therefore
\* never comes to a state from which the evaluator re-enters the code it is
\* executing with the values it has now, the calls before still pending
C33_Terminates == max_loops = SandboxMaxLoops => ~Recurs
\* a loop is at the pop of the result of its test and the stack is empty
AtEmptyTest(kind) == Active = kind /\ Loop.st = "test" /\ stack = <<>>

\* C34: when the pop of the result of the condition underflows, "while"
\* leaves the loop without executing the body, as "until" and "do" do: the
\* call returns to its caller, nothing is pushed and nothing is run
C34_UnderflowLeaves ==
  [][(AtEmptyTest("while") \/ AtEmptyTest("do")) =>
       (ctl' = Callers /\ stack' = <<>> /\ output' = output)]_vars_all
(***************************************************************************)
(* The strict evaluator of src/src/main.rs: struct Gs without max_loops,   *)
(* the stable flag, the RNG and the output; pop and top panic on an empty  *)
(* stack.  The tokens modelled are Int literals, blocks, "[", "]", "+",    *)
(* ";", "." and the symbols that name no built-in.                         *)
(***************************************************************************)
\* the loop of Gs::pop of main.rs over the bracket stack; l[i] -= 1 at 0
\* panics when the build checks overflow and wraps to usize::MAX otherwise
\* (usize::MAX is written -1: it is below no stack length)
RECURSIVE main_PopWalk(_, _, _, _)
main_PopWalk(l, i, n, checks) ==
  IF i > 0 /\ l[i] >= 0 /\ l[i] < n
  THEN IF l[i] = 0 /\ checks THEN [l |-> l, panicked |-> TRUE]
       ELSE main_PopWalk([l EXCEPT ![i] = @ - 1], i - 1, n, checks)
  ELSE [l |-> l, panicked |-> FALSE]

\* Gs::pop of main.rs: the evaluator after the pop and the popped value
main_pop(m, checks) ==
  LET n == Len(m.stack)
      w == main_PopWalk(m.lb, Len(m.lb), n, checks)
      seen == Append(m.pops, [len |-> n, lb |-> m.lb, after |-> w.l,
                              ok |-> ~w.panicked /\ n > 0])
  IN IF w.panicked \/ n = 0
     THEN [m |-> Panic([m EXCEPT !.pops = seen]), a |-> None]
     ELSE [m |-> [m EXCEPT !.lb = w.l, !.stack = SubSeq(@, 1, n - 1), !.pops = seen],
           a |-> Some(m.stack[n])]

\* Gs::plus of main.rs
main_plus(m, checks) ==
  LET p1 == main_pop(m, checks)
      p2 == main_pop(p1.m, checks)
  IN IF p1.m.aborted THEN p1.m
     ELSE IF p2.m.aborted THEN p2.m
     ELSE push(p2.m, plus_val(p2.a[1], p1.a[1]))

\* Gs::run of main.rs up to its token loop; a remainder of the parse panics
main_run(m, code) ==
  LET p == parse_code(code)
  IN IF Len(p.rest) > 0 THEN Panic(m)
     ELSE [m EXCEPT !.ctl = Append(@, [k |-> "run", toks |-> p.tokens, pc |-> 1])]

\* the match of Gs::run_builtin of main.rs
main_match(m, token, checks) ==
  LET sym == SymbolOf(token.lexeme)
  IN CASE token.kind = "IntLiteral" -> push(m, Literal(token.lexeme))
       [] token.kind = "Block" -> push(m, BlkV(token.body))
       [] token.kind = "Symbol" ->
            CASE sym = "+" -> main_plus(m, checks)
              [] sym = "[" -> [m EXCEPT !.lb = Append(@, Len(m.stack))]
              [] sym = "]" ->
                   LET from == IF m.lb = <<>> THEN 0 ELSE m.lb[Len(m.lb)]
                       rest == [m EXCEPT !.lb = SubSeq(@, 1, Len(@) - 1)]
                   IN IF from < 0 \/ from > Len(m.stack) THEN Panic(rest)
                      ELSE push([rest EXCEPT !.stack = SubSeq(@, 1, from)],
                                ArrV(SubSeq(m.stack, from + 1, Len(m.stack))))
              [] sym = ";" -> main_pop(m, checks).m
              [] sym = "." -> IF m.stack = <<>> THEN Panic(m)
                              ELSE push(m, m.stack[Len(m.stack)])
              [] sym \in {"", "n"} -> m

\* Gs::run_builtin of main.rs: the value bound to a symbol is executed by go
\* (a Blk is run, the match follows when that run has returned; any other
\* value is pushed), and then the match on the token
main_run_builtin(m, token, checks) ==
  IF token.kind = "Symbol" /\ token.lexeme \in DOMAIN m.vars
  THEN LET w == m.vars[token.lexeme]
       IN IF Tag(w) = "Blk"
          THEN main_run(Call(m, [k |-> "builtin", token |-> token]), Val(w))
          ELSE main_match(push(m, w), token, checks)
  ELSE main_match(m, token, checks)

\* one turn of the token loop of Gs::run of main.rs on a token other than ":"
main_run_step(m, checks) ==
  LET f == Top(m)
  IN main_run_builtin(SetTop(m, [f EXCEPT !.pc = @ + 1]), f.toks[f.pc], checks)

\* one turn of the token loop of Gs::run of main.rs on ":": a missing name
\* and an empty stack panic
main_assign_step(m) ==
  LET f == Top(m)
  IN IF f.pc + 1 > Len(f.toks) \/ m.stack = <<>> THEN Panic(m)
     ELSE [SetTop(m, [f EXCEPT !.pc = @ + 2])
             EXCEPT !.vars = (f.toks[f.pc + 1].lexeme :> m.stack[Len(m.stack)]) @@ @]

\* the code arguments of the command line: the empty one is extended piece
\* by piece
MainPrograms ==
  { <<>>, B("[1 2+]"), B("0[1 2+]"), B("1 2+"), B("0 0[1;]"), B("+"),
    B("1:+;2 3+"), B("{1}:+;2 3+"), B("5:a;a n") }

MainPieces ==
  { B("1"), B("2"), B("["), B("]"), B(";"), B("."), B("+"), B(":+"), B(":a"), B("a"),
    B("{1}") }

\* main: Gs::new and gs.run(code)
MainInit ==
  /\ stack = <<>>
  /\ vars = (<<110>> :> StrV(<<10>>))
  /\ lb = <<>>
  /\ overflow_checks \in BOOLEAN
  /\ \E code \in MainPrograms :
       /\ ctl = main_run([ctl |-> <<>>], code).ctl
       /\ feed = IF code = <<>> THEN MaxTokens ELSE 0
  /\ aborted = FALSE
  /\ rng_state = U64(RngSeed) /\ stable = TRUE /\ output = <<>>
  /\ max_loops = SandboxMaxLoops /\ phase = "run" /\ scen = 0
  /\ pops = <<>>
  /\ last = [act |-> "Init", lexeme |-> <<>>]

\* the code goes on with one more piece
MainFeed ==
  /\ Active = "run" /\ Len(ctl) = 1 /\ ~AtToken
  /\ feed > 0
  /\ \E piece \in MainPieces :
       ctl' = <<[k |-> "run", toks |-> parse_code(piece).tokens, pc |-> 1]>>
  /\ feed' = feed - 1
  /\ pops' = <<>>
  /\ last' = [act |-> "Feed", lexeme |-> <<>>]
  /\ UNCHANGED <<stack, vars, lb, rng_state, stable, output, max_loops, aborted,
                 phase, scen, overflow_checks>>

MainToken ==
  /\ AtToken /\ ~IsColon(CurToken)
  /\ Commit(main_run_step(Machine, overflow_checks), "StepToken", CurToken.lexeme)

MainAssign == AtToken /\ IsColon(CurToken) /\ Commit(main_assign_step(Machine), "Assign", CurToken.lexeme)

\* the run of a bound Blk has returned into run_builtin: the match follows
MainResume ==
  /\ Active = "builtin"
  /\ Commit(main_match(DropTop(Machine), Top(Machine).token, overflow_checks),
            "Resume", Top(Machine).token.lexeme)

MainNext ==
  \/ MainFeed
  \/ MainToken
  \/ MainAssign
  \/ Return
  \/ MainResume

MainSpec == MainInit /\ [][MainNext]_vars_all
\* main was given the code text and its last token has been executed
MainRan(text) ==
  /\ Len(ctl) = 1 /\ ~AtToken /\ ~aborted
  /\ ctl[1].toks = parse_code(text).tokens

\* main was given the code text and has panicked
MainPanicked(text) ==
  /\ aborted
  /\ ctl # <<>> /\ ctl[1].toks = parse_code(text).tokens

\* C35: in main.rs every pop on a non-empty stack lowers by one exactly the
\* entries of the bracket stack that are at least the length the stack has
\* before the pop, and does not panic; "[1 2+]" therefore runs to its end
\* and leaves the Arr [3]
C35_StrictPop ==
  /\ [][\A k \in 1..Len(pops') :
          pops'[k].len > 0 =>
            /\ pops'[k].ok
            /\ \A i \in 1..Len(pops'[k].lb) :
                 pops'[k].after[i] = IF pops'[k].lb[i] >= pops'[k].len
                                     THEN pops'[k].lb[i] - 1 ELSE pops'[k].lb[i]]_vars_all
  /\ [][~MainPanicked(B("[1 2+]"))]_vars_all
  /\ [][MainRan(B("[1 2+]")) => stack = <<ArrV(<<IntV(3)>>)>>]_vars_all

\* a symbol that is bound in the variable map is about to be executed
AtBoundSymbol ==
  /\ AtToken
  /\ CurToken.kind = "Symbol" /\ ~IsColon(CurToken)
  /\ CurToken.lexeme \in DOMAIN vars

\* C36: in main.rs the execution of a bound symbol executes the bound value
\* and nothing else: a Blk is run, any other value is pushed, and the
\* built-in that the symbol names is not performed, neither at once nor when
\* the run of the Blk has returned
C36_BoundOnly ==
  /\ [][AtBoundSymbol =>
          LET w == vars[CurToken.lexeme]
          IN /\ ~aborted' /\ lb' = lb
             /\ IF Tag(w) = "Blk"
                THEN /\ stack' = stack
                     /\ ctl'[Len(ctl')] = [k |-> "run", toks |-> parse_code(Val(w)).tokens, pc |-> 1]
                ELSE /\ stack' = Append(stack, w)
                     /\ ctl' = Advanced]_vars_all
  /\ [][Active = "builtin" => (~aborted' /\ lb' = lb /\ stack' = stack)]_vars_all

====
